---- MODULE Spec2Model ----
(***************************************************************************)
(* A model of the Jingle session engine of jitsi-meet-lib-small:           *)
(* JingleSessionPC (modules/xmpp/JingleSessionPC.js), its serialized       *)
(* modificationQueue and the TraceablePeerConnection it drives.            *)
(*                                                                         *)
(* JavaScript runs one callback to completion at a time.  An action of     *)
(* this model is one such run: a public method call, the start of a queued *)
(* work function, or the settlement of one promise of the media engine     *)
(* together with the chain of .then() continuations (micro tasks) that     *)
(* follows it up to the next call that waits for the media engine.         *)
(***************************************************************************)
EXTENDS Integers, Sequences, FiniteSets, TLC

\* ------------------------------------------------------------------ bounds
MaxCalls == 2      \* public method calls made on the session in one run
MaxCands == 1      \* candidates in one transport-info batch
MaxIqs == 2        \* Jingle IQs handed to onJingle in one run
MaxBatch == 2      \* remote candidates in one inbound transport-info
MaxGathered == 2   \* onicecandidate events in one run
MaxIceChanges == 3 \* iceconnectionstatechange events in one run
MaxPresences == 4  \* presences and decisions handled by the conferences in one run
MaxOwnerOps == 3   \* calls on the SSRC owner map in one run
MaxTrackCalls == 2 \* calls of _remoteTrackAdded in one run
MaxCallOps == 4    \* entries in the history of the conference sessions

\* The local tracks of the conference: an audio track and a video track.
AudioTrack == 1
VideoTrack == 2
Tracks == {AudioTrack, VideoTrack}
TrackLists == {{}, {AudioTrack}, Tracks}   \* the lists of initial local tracks
\* replaceTrack(old, new), 0 for null: nothing, add the video, remove it.
ReplacePairs == {<<0, 0>>, <<0, VideoTrack>>, <<VideoTrack, 0>>}
TaskIds == 1..MaxCalls
Sids == {"s1"}
Heights == {0, 180}
Undefined == -1

IsVideo(track) == track = VideoTrack

VARIABLES
    sid,            \* JingleSession.sid
    isInitiator,    \* JingleSession.isInitiator
    isP2P,          \* JingleSessionPC.isP2P
    state,          \* JingleSession.state: "pending", "active", "ended"
    localRecvMaxFrameHeight,
    codec,          \* the video codec configured on the peer connection
    task,           \* the work functions pushed so far, by push order
    queue,          \* modificationQueue: ids of the tasks waiting
    busy,           \* the task the queue is processing (0: none)
    chain,          \* per task: the media-engine call its chain waits for
    icePending,     \* per task: addIceCandidate calls not settled yet
    signalingState, \* peerconnection.signalingState
    remoteDescription, \* peerconnection.remoteDescription is set
    localDescription,  \* peerconnection.localDescription is set
    localTracks,    \* TraceablePeerConnection.localTracks (rtcIds)
    activations,    \* how many times state went from pending to active
    api,            \* the last public call: its number, name, whether it threw
    log             \* history: calls, settlements, callbacks, stanzas, events

\* JingleConnectionPlugin (strophe.jingle).
VARIABLES
    sessions,       \* JingleConnectionPlugin.sessions: the sids it knows
    created,        \* history: the JingleSessionPC objects onJingle constructed
    incoming,       \* history: the sessions of the call-incoming events emitted
    inbox,          \* history: the Jingle IQs handed to onJingle
    acks            \* history: the ids of the result IQs sent back

sessionVars == <<sid, isInitiator, isP2P, state, localRecvMaxFrameHeight, codec,
                 task, queue, busy, chain, icePending, signalingState,
                 remoteDescription, localDescription, localTracks, activations,
                 api, log>>

pluginVars == <<sessions, created, incoming, inbox, acks>>

\* The sending of the local ICE candidates.
VARIABLES
    usedrip,          \* JingleSession.usedrip: candidates are batched
    lasticecandidate, \* the end of the candidates has been seen
    dripContainer,    \* the candidates waiting for the batch timer
    dripTimer,        \* the batch timer is armed
    armed,            \* how many times the batch timer has been armed
    given,            \* history: the calls of sendIceCandidate
    transportInfo     \* history: the candidates of each transport-info sent

candVars == <<usedrip, lasticecandidate, dripContainer, dripTimer, armed, given,
              transportInfo>>

\* The connectivity of the peer connection.
VARIABLES
    pcOptions,          \* enableIceRestart; unified plan on a Chromium browser
    iceConnectionState, \* peerconnection.iceConnectionState
    sigSeen,            \* the signaling state the last signalingstatechange saw
    wasstable,          \* the signaling state has been stable
    wasConnected,       \* the connection has been established
    isReconnect,        \* an ICE restart is under way
    events              \* history: how often each event was emitted to the room

connVars == <<pcOptions, iceConnectionState, sigSeen, wasstable, wasConnected,
              isReconnect, events>>

\* The conferences of two participants of one room.
VARIABLES
    conference,   \* per instance: the room's jid and joined flag and members,
                  \* the participants, the P2P session
    announced,    \* history, per instance: what each presence said its sender is
    confLog       \* history: the events the conferences handled

confVars == <<conference, announced, confLog>>

\* The signaling layer of one transport.
VARIABLES
    ssrcOwners,   \* SignalingLayerImpl.ssrcOwners
    ownerLog      \* history: the calls of setSSRCOwner and getSSRCOwner

sigVars == <<ssrcOwners, ownerLog>>

\* The remote tracks of the peer connection.
VARIABLES
    usesUnifiedPlan,  \* TraceablePeerConnection._usesUnifiedPlan
    lastPresences,    \* ChatRoom.lastPresences: the endpoints a presence came from
    remoteTracks,     \* TraceablePeerConnection.remoteTracks
    trackLog          \* history: the number of calls of _remoteTrackAdded, the
                      \* input and the outcome of the last one

trackVars == <<usesUnifiedPlan, lastPresences, remoteTracks, trackLog>>

\* The bridged session of the conference.
VARIABLES
    jvbJingleSession, \* JitsiConference.jvbJingleSession: 0 or a session made
    initialized,      \* the sessions made that own a peer connection
    callLog           \* history: what the conference did with its sessions

callVars == <<jvbJingleSession, initialized, callLog>>

vars == <<sessionVars, pluginVars, candVars, connVars, confVars, sigVars,
          trackVars, callVars>>

NoTask == [kind |-> "none", tracks |-> {}, old |-> 0, new |-> 0, n |-> 0]

\* this._localVideoActive is set in the constructor and never changed.
localVideoActive == TRUE

\* The mutable part of the program as one record, so that the steps of one
\* run compose in the order the code performs them.
M == [state |-> state, task |-> task, queue |-> queue, busy |-> busy, chain |-> chain,
      icePending |-> icePending, sig |-> signalingState,
      remoteDesc |-> remoteDescription, localDesc |-> localDescription,
      localTracks |-> localTracks, activations |-> activations, log |-> log]

Set(m) ==
    /\ state' = m.state
    /\ task' = m.task
    /\ queue' = m.queue
    /\ busy' = m.busy
    /\ chain' = m.chain
    /\ icePending' = m.icePending
    /\ signalingState' = m.sig
    /\ remoteDescription' = m.remoteDesc
    /\ localDescription' = m.localDesc
    /\ localTracks' = m.localTracks
    /\ activations' = m.activations
    /\ log' = m.log

\* One entry of the history: task t (0: outside the queue) did op; st is the
\* session state at that moment.
EmitArg(m, t, op, ev, arg) ==
    [m EXCEPT !.log = Append(@, [t |-> t, op |-> op, ev |-> ev, arg |-> arg,
                                 st |-> m.state])]

Emit(m, t, op, ev) == EmitArg(m, t, op, ev, "-")

\* A call on the peer connection whose promise the chain of t waits for.
Call(m, t, op) == [Emit(m, t, op, "call") EXCEPT !.chain[t] = op]

\* connection.sendIQ of a Jingle stanza with this session's sid.
SendStanza(m, t, action) == EmitArg(m, t, action, "send", sid)

\* ---------------------------------------------------- the ends of a task
\* A session-accept built without the sid attribute.
sendSessionAcceptNoSid(m, t) == EmitArg(m, t, "session-accept", "send", "-")

\* sendSessionAccept: builds the stanza from the local description and sends
\* it with the session's sid.
sendSessionAccept(m, t) == SendStanza(m, t, "session-accept")

\* An acceptOffer that sends session-accept whatever the outcome.
AcceptBadCallback(m, t, err) ==
    sendSessionAccept(Emit(m, t, IF err THEN "failure" ELSE "success", "cb"), t)

\* The callback each public method hands to modificationQueue.push.
AcceptCallback(m, t, err) ==
    IF err THEN Emit(m, t, "failure", "cb")
    ELSE sendSessionAccept(Emit(m, t, "success", "cb"), t)

Callback(m, t, err) ==
    CASE m.task[t].kind = "accept" -> AcceptCallback(m, t, err)
      [] m.task[t].kind \in {"answer", "replace"} ->
            Emit(m, t, IF err THEN "failure" ELSE "success", "cb")
      [] OTHER -> m

\* finishedCallback(err): the task signals its completion; the queue calls the
\* callback given to push and is free for the next task.
Finish(m, t, err) ==
    LET m1 == Emit(m, t, "finishedCallback", IF err THEN "err" ELSE "ok")
        m2 == [m1 EXCEPT !.chain[t] = "none",
                         !.busy = IF @ = t THEN 0 ELSE @]
    IN  Callback(m2, t, err)

\* ------------------------------------------------ TraceablePeerConnection
\* addTrack: rejects a track that is already there; stores the track and then
\* rejects when the native addTrack/addTransceiver throws (closed connection).
RECURSIVE AddTracks(_, _, _, _)
AddTracks(m, t, S, ok) ==
    IF S = {} THEN [m |-> m, ok |-> ok]
    ELSE LET track == CHOOSE x \in S : \A y \in S : x <= y
             m1 == EmitArg(m, t, "addTrack", "call", ToString(track))
         IN  IF track \in m.localTracks
             THEN AddTracks(m1, t, S \ {track}, FALSE)
             ELSE AddTracks([m1 EXCEPT !.localTracks = @ \cup {track}], t,
                            S \ {track}, ok /\ m.sig # "closed")

\* What a resolved media-engine call leaves in the peer connection.  The
\* remote description is an answer for the initiator and an offer for the
\* responder; the local one is the opposite.
EngineOk(m, t, op) ==
    CASE op = "setLocalDescription" ->
            [m EXCEPT !.localDesc = TRUE,
                      !.sig = IF isInitiator THEN "have-local-offer" ELSE "stable"]
      [] op = "setRemoteDescription" ->
            [m EXCEPT !.remoteDesc = TRUE,
                      !.sig = IF isInitiator THEN "stable" ELSE "have-remote-offer"]
      [] op = "replaceTrack" ->
            [m EXCEPT !.localTracks = (@ \ {m.task[t].old}) \cup ({m.task[t].new} \ {0})]
      [] OTHER -> m

\* ----------------------------------------------------------- renegotiation
Truthy(h) == h # Undefined /\ h # 0

\* A cycle that flips the state instead of testing for PENDING.
CycleStateToggle(st) == IF st = "pending" THEN "active" ELSE "pending"

\* setOfferAnswerCycle, after _renegotiate resolved: the state the session
\* is in afterwards.
CycleState(st) == IF st = "pending" THEN "active" ELSE st

Activate(m, t) ==
    LET ns == CycleState(m.state)
        m1 == [m EXCEPT !.state = ns,
                        !.activations = IF m.state = "pending" /\ ns = "active"
                                        THEN @ + 1 ELSE @]
    IN  IF m.state = "pending"
           /\ isP2P /\ (~localVideoActive \/ Truthy(localRecvMaxFrameHeight))
        THEN SendStanza(m1, t, "content-modify")
        ELSE m1

\* An initiator that applies the remote answer before making its offer.
InitiatorSwapped(op) ==
    CASE op = "start" -> "setRemoteDescription"
      [] op = "setRemoteDescription" -> "createOffer"
      [] op = "createOffer" -> "setLocalDescription"
      [] OTHER -> "done"

\* The order of the calls of one renegotiation cycle, by role.
InitiatorNext(op) ==
    CASE op = "start" -> "createOffer"
      [] op = "createOffer" -> "setLocalDescription"
      [] op = "setLocalDescription" -> "setRemoteDescription"
      [] OTHER -> "done"

ResponderNext(op) ==
    CASE op = "start" -> "setRemoteDescription"
      [] op = "setRemoteDescription" -> "createAnswer"
      [] op = "createAnswer" -> "setLocalDescription"
      [] OTHER -> "done"

RenegotiateNext(op) == IF isInitiator THEN InitiatorNext(op) ELSE ResponderNext(op)

\* A _renegotiate without its two guards.
RenegotiateUnguarded(sig, hasRemote) == FALSE

\* _renegotiate's two guards: a closed connection, no remote description.
RenegotiateFails(sig, hasRemote) == sig = "closed" \/ ~hasRemote

\* _renegotiate(optionalRemoteSdp): explicit tells whether a raw remote
\* description was passed.  A rejected promise ends the chain of the task.
Renegotiate(m, t, explicit) ==
    LET hasRemote == explicit \/ m.remoteDesc
        m1 == EmitArg(m, t, "_renegotiate",
                      IF m.sig = "closed" THEN "closed" ELSE "open",
                      IF hasRemote THEN "remote" ELSE "noremote")
    IN  IF RenegotiateFails(m.sig, hasRemote)
        THEN Finish(Emit(m1, t, "RENEGOTIATION_FAILED", "emit"), t, TRUE)
        ELSE Call(m1, t, RenegotiateNext("start"))

\* replaceTrack, after the swap and the optional renegotiation: a new video
\* track gets its sender parameters set, one call after the other.
PostReplaceNext(op) ==
    CASE op = "start" -> "setSenderVideoDegradationPreference"
      [] op = "setSenderVideoDegradationPreference" -> "setSenderVideoConstraint"
      [] op = "setSenderVideoConstraint" -> "setMaxBitRate"
      [] OTHER -> "done"

PostReplace(m, t) ==
    IF m.task[t].new # 0 /\ IsVideo(m.task[t].new)
    THEN Call(m, t, PostReplaceNext("start"))
    ELSE Finish(m, t, FALSE)

\* A cycle that changes the state after finishedCallback instead of before.
AfterRenegotiateLate(m, t) ==
    CASE m.task[t].kind \in {"accept", "answer"} -> Activate(Finish(m, t, FALSE), t)
      [] m.task[t].kind = "replace" -> PostReplace(m, t)
      [] OTHER -> Finish(m, t, FALSE)

AfterRenegotiate(m, t) ==
    CASE m.task[t].kind \in {"accept", "answer"} -> Finish(Activate(m, t), t, FALSE)
      [] m.task[t].kind = "replace" -> PostReplace(m, t)
      [] OTHER -> Finish(m, t, FALSE)

\* ------------------------------------------------------ the work functions
\* An invite that sends session-initiate once the offer is created.
InviteSendEarly(op) ==
    CASE op = "start" -> "createOffer"
      [] op = "createOffer" -> "send"
      [] OTHER -> "setLocalDescription"

\* invite: add the tracks, create the offer, apply it, send session-initiate.
InviteNext(op) ==
    CASE op = "start" -> "createOffer"
      [] op = "createOffer" -> "setLocalDescription"
      [] OTHER -> "send"

InviteStep(m, t, op) ==
    IF InviteNext(op) = "send"
    THEN Finish(SendStanza(m, t, "session-initiate"), t, FALSE)
    ELSE Call(m, t, InviteNext(op))

WorkInvite(m, t) ==
    LET r == AddTracks(m, t, m.task[t].tracks, TRUE)
    IN  IF r.ok THEN InviteStep(r.m, t, "start") ELSE Finish(r.m, t, TRUE)

\* setOfferAnswerCycle: add the tracks, convert the Jingle IQ into the remote
\* description, renegotiate with it.
WorkOfferAnswer(m, t) ==
    LET r == AddTracks(m, t, m.task[t].tracks, TRUE)
    IN  IF r.ok THEN Renegotiate(r.m, t, TRUE) ELSE Finish(r.m, t, TRUE)

\* setVideoCodecs: renegotiate with the stored remote description.
WorkCodecs(m, t) == Renegotiate(m, t, FALSE)

WorkReplace(m, t) == Call(m, t, "replaceTrack")

\* addIceCandidates: every candidate is handed to the peer connection and the
\* task is finished at once.
\* A loop that walks the candidates from the last to the first.
IcePositionReversed(total, left) == left

\* The position in the stanza of the candidate the loop is at, when left
\* candidates are still to be handed over.
IcePosition(total, left) == total - left + 1

RECURSIVE IceCalls(_, _, _)
IceCalls(m, t, n) ==
    IF n = 0 THEN m
    ELSE IceCalls(EmitArg(m, t, "addIceCandidate", "call",
                          ToString(IcePosition(m.task[t].n, n))), t, n - 1)

WorkIce(m, t) ==
    Finish([IceCalls(m, t, m.task[t].n) EXCEPT !.icePending[t] = m.task[t].n],
           t, FALSE)

Start(m, t) ==
    CASE m.task[t].kind = "invite" -> WorkInvite(m, t)
      [] m.task[t].kind \in {"accept", "answer"} -> WorkOfferAnswer(m, t)
      [] m.task[t].kind = "codecs" -> WorkCodecs(m, t)
      [] m.task[t].kind = "replace" -> WorkReplace(m, t)
      [] OTHER -> WorkIce(m, t)

\* A replaceTrack that renegotiates whenever the swap asks for it.
RenegotiateInAnyState(reneg, old, new, st) == reneg

\* replaceTrack: shouldRenegotiate && (oldTrack || newTrack)
\* && this.state === ACTIVE
ShouldRenegotiate(reneg, old, new, st) ==
    reneg /\ (old # 0 \/ new # 0) /\ st = "active"

\* The continuation that runs when the call the chain of t waits for resolved;
\* reneg is what replaceTrack resolved with.
Continue(m, t, op, reneg) ==
    CASE m.task[t].kind = "invite" -> InviteStep(m, t, op)
      [] op = "replaceTrack" ->
            IF ShouldRenegotiate(reneg, m.task[t].old, m.task[t].new, m.state)
            THEN Renegotiate(m, t, FALSE)
            ELSE PostReplace(m, t)
      [] op \in {"setSenderVideoDegradationPreference",
                 "setSenderVideoConstraint", "setMaxBitRate"} ->
            IF PostReplaceNext(op) = "done" THEN Finish(m, t, FALSE)
            ELSE Call(m, t, PostReplaceNext(op))
      [] OTHER ->
            IF RenegotiateNext(op) = "done" THEN AfterRenegotiate(m, t)
            ELSE Call(m, t, RenegotiateNext(op))

\* ------------------------------------------------------ modificationQueue
Push(m, t) == [m EXCEPT !.queue = Append(@, t)]

NewTask(kind, tracks, old, new, n) ==
    [M EXCEPT !.task[api.n + 1] =
        [kind |-> kind, tracks |-> tracks, old |-> old, new |-> new, n |-> n]]

Called(op, threw) == api' = [n |-> api.n + 1, op |-> op, threw |-> threw]

CanCall == api.n < MaxCalls

\* What a run on the session leaves alone: the constructor arguments of the
\* session and the objects around it.
Fixed ==
    /\ UNCHANGED <<sid, isInitiator, isP2P>>
    /\ UNCHANGED pluginVars
    /\ UNCHANGED candVars
    /\ UNCHANGED connVars
    /\ UNCHANGED confVars
    /\ UNCHANGED sigVars
    /\ UNCHANGED trackVars
    /\ UNCHANGED callVars

\* The queue takes the next task when the one before has finished.
QueueProcess ==
    /\ busy = 0
    /\ queue # <<>>
    /\ Set(Start([M EXCEPT !.queue = Tail(@), !.busy = Head(queue)], Head(queue)))
    /\ Fixed
    /\ UNCHANGED <<localRecvMaxFrameHeight, codec, api>>

\* A queue that lets the exception of a task body through.
TaskThrewUncaught(m, t) == m

\* The queue catches what the task body throws and finishes the task with it.
TaskThrew(m, t) == Finish(m, t, TRUE)

\* setOfferAnswerCycle whose conversion of the Jingle IQ throws: the tracks
\* have been handed to addTrack, no promise chain has been set up.
WorkOfferAnswerThrows(m, t) ==
    LET r == AddTracks(m, t, m.task[t].tracks, TRUE)
    IN  TaskThrew(Emit(r.m, t, "_processNewJingleOfferIq", "throw"), t)

\* The queue takes the next task, and the body of the task throws.
QueueProcessThrows ==
    /\ busy = 0
    /\ queue # <<>>
    /\ task[Head(queue)].kind \in {"accept", "answer"}
    /\ Set(WorkOfferAnswerThrows([M EXCEPT !.queue = Tail(@), !.busy = Head(queue)],
                                 Head(queue)))
    /\ Fixed
    /\ UNCHANGED <<localRecvMaxFrameHeight, codec, api>>

\* A promise of the media engine settles; a closed connection only rejects.
Settle(t, ok, reneg) ==
    /\ chain[t] # "none"
    /\ signalingState = "closed" => ~ok
    /\ reneg => (ok /\ chain[t] = "replaceTrack")
    /\ Set(IF ok
           THEN Continue(Emit(EngineOk(M, t, chain[t]), t, chain[t], "ok"),
                         t, chain[t], reneg)
           ELSE Finish(Emit(M, t, chain[t], "err"), t, TRUE))
    /\ Fixed
    /\ UNCHANGED <<localRecvMaxFrameHeight, codec, api>>

\* One addIceCandidate promise settles; both handlers only write to the logger.
IceSettle(t) ==
    /\ icePending[t] > 0
    /\ Set([M EXCEPT !.icePending[t] = @ - 1])
    /\ Fixed
    /\ UNCHANGED <<localRecvMaxFrameHeight, codec, api>>

\* The peer connection gets closed under the session.
PcClose ==
    /\ signalingState # "closed"
    /\ Set([M EXCEPT !.sig = "closed"])
    /\ Fixed
    /\ UNCHANGED <<localRecvMaxFrameHeight, codec, api>>

\* --------------------------------------------- the answer to session-accept
\* What comes back for a request: a result, an error stanza, or nothing
\* before the timeout, in which case the error callback gets null.
IqOutcomes == {"result", "error", "timeout"}

SessionAcceptsSent ==
    SelectSeq(log, LAMBDA e : e.op = "session-accept" /\ e.ev = "send")

SessionAcceptsAnswered ==
    SelectSeq(log, LAMBDA e : e.op = "session-accept" /\ e.ev \in IqOutcomes)

\* An error handler that reads the reason from the response only.
ReasonOfResponse(outcome) ==
    IF outcome = "error" THEN "item-not-found" ELSE "undefined"

\* newJingleErrorHandler: the reason is the condition of the error stanza,
\* and timeout when there is no response.
ErrorReason(outcome) ==
    IF outcome = "timeout" THEN "timeout" ELSE "item-not-found"

\* A handler of the answer that calls nobody back.
SessionAcceptIgnored(m, outcome) == Emit(m, 0, "session-accept", outcome)

\* The callbacks sendSessionAccept hands to sendIQ: success for a result; for
\* an error or a timeout the handler made by newJingleErrorHandler, which
\* calls failure(error) and then emits SESSION_ACCEPT_TIMEOUT.
SessionAcceptAnswered(m, outcome) ==
    LET m1 == Emit(m, 0, "session-accept", outcome)
    IN  IF outcome = "result"
        THEN Emit(m1, 0, "acceptOffer.success", "cb")
        ELSE LET m2 == EmitArg(m1, 0, "errorHandler", "call",
                               IF outcome = "timeout" THEN "null" ELSE "response")
                 m3 == EmitArg(m2, 0, "acceptOffer.failure", "cb", ErrorReason(outcome))
             IN  Emit(m3, 0, "SESSION_ACCEPT_TIMEOUT", "emit")

\* The oldest session-accept that is waiting for its answer gets it.
IqResponse(outcome) ==
    /\ Len(SessionAcceptsSent) > Len(SessionAcceptsAnswered)
    /\ Set(SessionAcceptAnswered(M, outcome))
    /\ Fixed
    /\ UNCHANGED <<localRecvMaxFrameHeight, codec, api>>

\* ------------------------------------------------------- public methods
\* _assertNotEnded
AssertNotEnded(st) == st # "ended"

\* acceptOffer -> setOfferAnswerCycle: the task is pushed whatever the state.
AcceptOffer(tracks) ==
    /\ CanCall
    /\ Set(Push(NewTask("accept", tracks, 0, 0, 0), api.n + 1))
    /\ Called("acceptOffer", FALSE)
    /\ Fixed
    /\ UNCHANGED <<localRecvMaxFrameHeight, codec>>

\* invite and setAnswer without the role test.
NeverThrows(initiator) == FALSE

\* invite and setAnswer throw on a responder session before anything else.
ThrowsOnResponder(initiator) == ~initiator

Invite(tracks) ==
    /\ CanCall
    /\ IF ThrowsOnResponder(isInitiator)
       THEN Called("invite", TRUE) /\ Set(M)
       ELSE /\ Called("invite", FALSE)
            /\ Set(Push(NewTask("invite", tracks, 0, 0, 0), api.n + 1))
    /\ Fixed
    /\ UNCHANGED <<localRecvMaxFrameHeight, codec>>

SetAnswer ==
    /\ CanCall
    /\ IF ThrowsOnResponder(isInitiator)
       THEN Called("setAnswer", TRUE) /\ Set(M)
       ELSE /\ Called("setAnswer", FALSE)
            /\ Set(Push(NewTask("answer", {}, 0, 0, 0), api.n + 1))
    /\ Fixed
    /\ UNCHANGED <<localRecvMaxFrameHeight, codec>>

\* JitsiConference.onCallAccepted(session, answer): for the P2P session of the
\* conference, setAnswer, which throws on a responder and else only queues
\* the task, and right after it the media-session-started event.
OnCallAccepted(same) ==
    /\ CanCall
    /\ IF ~same
       THEN Called("onCallAccepted", FALSE) /\ Set(M)
       ELSE IF ThrowsOnResponder(isInitiator)
            THEN Called("setAnswer", TRUE) /\ Set(M)
            ELSE /\ Called("setAnswer", FALSE)
                 /\ Set(EmitArg(Push(NewTask("answer", {}, 0, 0, 0), api.n + 1),
                                0, "MEDIA_SESSION_STARTED", "emit", sid))
    /\ Fixed
    /\ UNCHANGED <<localRecvMaxFrameHeight, codec>>

\* A replaceTrack that runs its work function at once, past the queue.
ReplaceRunNow(m, t) == Start(m, t)

\* replaceTrack hands its work function to the queue.
ReplaceSubmit(m, t) == Push(m, t)

ReplaceTrack(old, new) ==
    /\ CanCall
    /\ Set(ReplaceSubmit(NewTask("replace", {}, old, new, 0), api.n + 1))
    /\ Called("replaceTrack", FALSE)
    /\ Fixed
    /\ UNCHANGED <<localRecvMaxFrameHeight, codec>>

Codecs == {"vp8", "h264"}

SetVideoCodecs(preferred) ==
    /\ CanCall
    /\ Called("setVideoCodecs", FALSE)
    /\ IF AssertNotEnded(state) /\ preferred # codec
       THEN /\ codec' = preferred
            /\ Set(Push(NewTask("codecs", {}, 0, 0, 0), api.n + 1))
       ELSE /\ codec' = codec
            /\ Set(M)
    /\ Fixed
    /\ UNCHANGED localRecvMaxFrameHeight

\* An addIceCandidates that queues whatever it is given.
IceNeverDropped(sig, n) == FALSE

\* addIceCandidates drops the batch when the connection is closed or the
\* stanza has no candidate.
IceDropped(sig, n) == sig = "closed" \/ n = 0

\* addIceCandidates with n parseable candidates in the stanza.
AddIceCandidates(n) ==
    /\ CanCall
    /\ Called("addIceCandidates", FALSE)
    /\ IF IceDropped(signalingState, n)
       THEN Set(M)
       ELSE Set(Push(NewTask("ice", {}, 0, 0, n), api.n + 1))
    /\ Fixed
    /\ UNCHANGED <<localRecvMaxFrameHeight, codec>>

\* sendIceCandidates, called once a local description exists.
SendIceCandidates ==
    /\ CanCall
    /\ localDescription
    /\ Called("sendIceCandidates", FALSE)
    /\ IF AssertNotEnded(state)
       THEN Set(SendStanza(M, 0, "transport-info"))
       ELSE Set(M)
    /\ Fixed
    /\ UNCHANGED <<localRecvMaxFrameHeight, codec>>

\* A setReceiverVideoConstraint that signals the preference in any state.
SignalsInAnyState(st) == TRUE

\* setReceiverVideoConstraint: this.state === ACTIVE
SignalsNow(st) == st = "active"

SetReceiverVideoConstraint(h) ==
    /\ CanCall
    /\ Called("setReceiverVideoConstraint", FALSE)
    /\ localRecvMaxFrameHeight' = h
    /\ IF isP2P
       THEN IF SignalsNow(state)
            THEN Set(SendStanza(M, 0, "content-modify"))
            ELSE Set(M)
       ELSE Set(EmitArg(M, 0, "rtc.setReceiverVideoConstraint", "call", ToString(h)))
    /\ Fixed
    /\ UNCHANGED codec

SetSenderVideoConstraint ==
    /\ CanCall
    /\ Called("setSenderVideoConstraint", FALSE)
    /\ IF AssertNotEnded(state)
       THEN Set(Emit(M, 0, "setSenderVideoConstraint", "call"))
       ELSE Set(M)
    /\ Fixed
    /\ UNCHANGED <<localRecvMaxFrameHeight, codec>>

\* The session is ended: session-terminate, teardown or a fatal failure.
Terminate ==
    /\ state # "ended"
    /\ Set([M EXCEPT !.state = "ended"])
    /\ Fixed
    /\ UNCHANGED <<localRecvMaxFrameHeight, codec, api>>

\* ------------------------------------------------- JingleConnectionPlugin
JingleActions == {"session-initiate", "transport-info", "session-accept",
                  "content-modify", "session-terminate", "unknown"}

\* The sid attribute of an inbound IQ: this session's or another one's.
JingleSids == Sids \cup {"s2"}

\* The resource of the sender's JID: the focus or another participant.
Resources == {"focus", "abcd1234"}

\* A plugin that takes every sender for the bridge.
AlwaysBridged(from) == FALSE

\* onJingle: Strophe.getResourceFromJid(fromJid) !== 'focus'
SenderIsP2P(from) == from # "focus"

\* The session that the session-initiate case constructs.
NewSession(jsid, from) ==
    [sid |-> jsid, isInitiator |-> FALSE, isP2P |-> SenderIsP2P(from),
     iceConfig |-> IF SenderIsP2P(from) THEN "p2p" ELSE "jvb"]

\* The actions onJingle has a case for.
Dispatched(action) == action = "session-initiate"

\* onJingle(iq): builds the ack, dispatches on the action, then sends the
\* ack.  session-initiate constructs a session and emits the call-incoming
\* event; an exception of the constructor or of a listener leaves onJingle
\* before connection.send(ack).  The session is not stored in this.sessions.
OnJingleStep(action, jsid, from, throws) ==
    /\ Len(inbox) < MaxIqs
    /\ throws => Dispatched(action)
    /\ inbox' = Append(inbox, [id |-> Len(inbox) + 1, action |-> action,
                               sid |-> jsid, from |-> from, threw |-> throws])
    /\ created' = IF Dispatched(action)
                  THEN Append(created, NewSession(jsid, from)) ELSE created
    /\ incoming' = IF Dispatched(action)
                   THEN Append(incoming, NewSession(jsid, from)) ELSE incoming
    /\ acks' = IF throws THEN acks ELSE Append(acks, Len(inbox) + 1)
    /\ UNCHANGED sessions

\* onJingle with any listener of the call-incoming event.
OnJingle(action, jsid, from, throws) ==
    /\ OnJingleStep(action, jsid, from, throws)
    /\ UNCHANGED sessionVars
    /\ UNCHANGED candVars
    /\ UNCHANGED connVars
    /\ UNCHANGED confVars
    /\ UNCHANGED sigVars
    /\ UNCHANGED trackVars
    /\ UNCHANGED callVars

\* ------------------------------------------------ local ICE candidates
\* The media sections of the local description.
Mids == {0, 1}

\* What onicecandidate hands over: a candidate, null, or a candidate whose
\* candidate string is empty.
CandKinds == {"cand", "null", "empty"}

\* A sendIceCandidate that takes whatever comes before the end was seen.
AcceptsAny(kind, latch) == ~latch

\* sendIceCandidate: candidate && candidate.candidate.length
\* && !this.lasticecandidate
Accepts(kind, latch) == kind = "cand" /\ ~latch

\* A sendIceCandidates that keeps the candidates as they came.
AsDiscovered(cands) == cands

\* A sendIceCandidates that looks at the first media section only.
FirstSectionOnly(cands) == SelectSeq(cands, LAMBDA c : c.mid = 0)

\* sendIceCandidates: one content element per media section, in the order of
\* the sections, each with the candidates of its section.
RECURSIVE ByMidFrom(_, _)
ByMidFrom(cands, mid) ==
    IF mid \notin Mids THEN <<>>
    ELSE SelectSeq(cands, LAMBDA c : c.mid = mid) \o ByMidFrom(cands, mid + 1)

ByMid(cands) == ByMidFrom(cands, 0)

\* sendIceCandidates(candidates), as sendIceCandidate calls it.
SendBatch(cands) ==
    transportInfo' = IF AssertNotEnded(state)
                     THEN Append(transportInfo, ByMid(cands))
                     ELSE transportInfo

\* sendIceCandidate(candidate): parses tells whether the ICE parameters of
\* the section and the candidate line could be converted.
SendIceCandidate(kind, mid, parses) ==
    /\ Len(given) < MaxGathered
    /\ localDescription
    /\ LET c == [id |-> Len(given) + 1, mid |-> mid]
           taken == Accepts(kind, lasticecandidate) /\ parses
       IN  /\ IF Accepts(kind, lasticecandidate)
              THEN /\ lasticecandidate' = lasticecandidate
                   /\ IF ~parses
                      THEN UNCHANGED <<dripContainer, dripTimer, armed, transportInfo>>
                      ELSE IF usedrip
                      THEN /\ dripTimer' = (dripTimer \/ dripContainer = <<>>)
                           /\ armed' = IF dripContainer = <<>> THEN armed + 1 ELSE armed
                           /\ dripContainer' = Append(dripContainer, c)
                           /\ UNCHANGED transportInfo
                      ELSE /\ SendBatch(<<c>>)
                           /\ UNCHANGED <<dripContainer, dripTimer, armed>>
              ELSE /\ lasticecandidate' = TRUE
                   /\ UNCHANGED <<dripContainer, dripTimer, armed, transportInfo>>
           /\ given' = Append(given, [id |-> c.id, mid |-> mid, kind |-> kind,
                                      parses |-> parses, taken |-> taken,
                                      w |-> IF dripTimer' THEN armed' ELSE 0])
    /\ UNCHANGED usedrip
    /\ UNCHANGED sessionVars
    /\ UNCHANGED pluginVars
    /\ UNCHANGED connVars
    /\ UNCHANGED confVars
    /\ UNCHANGED sigVars
    /\ UNCHANGED trackVars
    /\ UNCHANGED callVars

\* The batch timer set by sendIceCandidate expires.
DripTimerFires ==
    /\ dripTimer
    /\ dripTimer' = FALSE
    /\ IF dripContainer = <<>>
       THEN UNCHANGED <<dripContainer, transportInfo>>
       ELSE SendBatch(dripContainer) /\ dripContainer' = <<>>
    /\ UNCHANGED <<usedrip, lasticecandidate, armed, given>>
    /\ UNCHANGED sessionVars
    /\ UNCHANGED pluginVars
    /\ UNCHANGED connVars
    /\ UNCHANGED confVars
    /\ UNCHANGED sigVars
    /\ UNCHANGED trackVars
    /\ UNCHANGED callVars

\* ------------------------------------------------------- connectivity
IceStates == {"new", "checking", "connected", "disconnected"}

\* onsignalingstatechange: the handler runs after the signaling state changed
\* and reads the state the peer connection is in by then.
OnSignalingStateChange ==
    /\ signalingState # sigSeen
    /\ sigSeen' = signalingState
    /\ wasstable' = (wasstable \/ signalingState = "stable")
    /\ events' = IF signalingState = "closed"
                 THEN [events EXCEPT !.suspend = @ + 1] ELSE events
    /\ UNCHANGED <<pcOptions, iceConnectionState, wasConnected, isReconnect>>
    /\ UNCHANGED sessionVars
    /\ UNCHANGED pluginVars
    /\ UNCHANGED candVars
    /\ UNCHANGED confVars
    /\ UNCHANGED sigVars
    /\ UNCHANGED trackVars
    /\ UNCHANGED callVars

\* A handler that announces every connection that comes up.
EstablishedAgain(was, ready) == ready

\* oniceconnectionstatechange: !this.wasConnected && (this.wasstable
\* || isStable || (usesUnifiedPlan && isInitiator && isChromiumBased()))
Established(was, ready) == ~was /\ ready

\* A handler that takes any connection for ready.
ReadyAlways(stableBefore, isStable, chromiumOfferer) == TRUE

\* oniceconnectionstatechange: this.wasstable || isStable
\* || (this.usesUnifiedPlan && this.isInitiator && browser.isChromiumBased())
Ready(stableBefore, isStable, chromiumOfferer) ==
    stableBefore \/ isStable \/ chromiumOfferer

\* oniceconnectionstatechange, after the ICE connection state became ice.
OnIceConnectionStateChange(ice) ==
    /\ events.changed < MaxIceChanges
    /\ ice # iceConnectionState
    /\ iceConnectionState' = ice
    /\ LET isStable == signalingState = "stable"
           restored == ice = "connected" /\ isStable
                       /\ (isReconnect \/ ~pcOptions.enableIceRestart)
           est == ice = "connected"
                  /\ Established(wasConnected,
                                 Ready(wasstable, isStable,
                                       pcOptions.unifiedChromium /\ isInitiator))
       IN  /\ wasConnected' = (wasConnected \/ est)
           /\ isReconnect' = IF ice = "connected" THEN FALSE ELSE isReconnect
           /\ events' = [events EXCEPT
                            !.changed = @ + 1,
                            !.restored = IF restored THEN @ + 1 ELSE @,
                            !.established = IF est THEN @ + 1 ELSE @]
    /\ UNCHANGED <<pcOptions, sigSeen, wasstable>>
    /\ UNCHANGED sessionVars
    /\ UNCHANGED pluginVars
    /\ UNCHANGED candVars
    /\ UNCHANGED confVars
    /\ UNCHANGED sigVars
    /\ UNCHANGED trackVars
    /\ UNCHANGED callVars

\* --------------------------------------------------------- the conference
Instances == {"A", "B"}

\* The resources of the jids in the room, as strings of digits: 10, 20 and 9.
Ids == {<<1, 0>>, <<2, 0>>, <<9>>}

\* The resource of the jid of the focus.
Focus == <<15>>

\* No P2P session.
NoSession == <<>>

\* What a presence can say about its sender.
Kinds == {"user", "poltergeist", "jigasi"}

\* A comparison that never finds the local id greater.
NeverGreater(a, b) == FALSE

\* myId > peersId on two strings: by the first character that differs.
RECURSIVE Greater(_, _)
Greater(a, b) ==
    IF a = <<>> THEN FALSE
    ELSE IF b = <<>> THEN TRUE
    ELSE IF a[1] # b[1] THEN a[1] > b[1]
    ELSE Greater(Tail(a), Tail(b))

\* new JitsiParticipant(jid, conference, nick, isHidden, statsID, status,
\* identity): the bot type and the features of the member are not among the
\* arguments, and nothing sets them later.
NewParticipant(isHidden) == [hidden |-> isHidden, botType |-> "none", features |-> {}]

\* _shouldBeInP2PMode: one participant, and no participant that is a
\* poltergeist or has the Jigasi feature.
ShouldBeInP2PMode(c) ==
    /\ Cardinality(DOMAIN c.participants) = 1
    /\ ~\E id \in DOMAIN c.participants :
          \/ c.participants[id].botType = "poltergeist"
          \/ "jigasi" \in c.participants[id].features

\* A decision that starts a session whether or not there is one.
StartAlways(session) == TRUE

\* _maybeStartOrStopP2P: !this.p2pJingleSession
StartAllowed(session) == session = NoSession

\* _maybeStartOrStopP2P: what it does, and the conference it leaves.
\* _startP2PSession stores the new session, _stopP2PSession drops it.
MaybeStartOrStopP2P(c) ==
    LET myId == c.myroomjid
        peersId == CHOOSE id \in DOMAIN c.participants : TRUE
    IN  IF StartAllowed(c.p2pJingleSession) /\ ShouldBeInP2PMode(c)
        THEN IF Greater(myId, peersId) \/ myId = peersId
             THEN [c |-> c, did |-> "none"]
             ELSE [c |-> [c EXCEPT !.p2pJingleSession = peersId], did |-> "start"]
        ELSE IF c.p2pJingleSession # NoSession /\ ~ShouldBeInP2PMode(c)
        THEN [c |-> [c EXCEPT !.p2pJingleSession = NoSession], did |-> "stop"]
        ELSE [c |-> c, did |-> "none"]

\* An onMemberJoined that decides whether or not the room is joined.
DecidesAlways(joined) == TRUE

\* onMemberJoined: if (this.isJoined())
DecidesWhenJoined(joined) == joined

\* One entry of the history of the conferences; peers is the set of the
\* participants when the decision ran.
ConfEntry(i, ev, id, c, ran, did) ==
    [inst |-> i, ev |-> ev, id |-> id, joined |-> c.joined, ran |-> ran,
     did |-> did, peers |-> DOMAIN c.participants]

Handled == Len(confLog) < MaxPresences

ConfUnchanged ==
    /\ UNCHANGED sessionVars
    /\ UNCHANGED pluginVars
    /\ UNCHANGED candVars
    /\ UNCHANGED connVars
    /\ UNCHANGED sigVars
    /\ UNCHANGED trackVars
    /\ UNCHANGED callVars

\* ChatRoom.onPresence for the room's own jid: the first one completes the
\* join and emits muc_joined, which runs _onMucJoined.
OnOwnPresence(i) ==
    LET c == conference[i]
        r == MaybeStartOrStopP2P([c EXCEPT !.joined = TRUE])
    IN  /\ Handled
        /\ IF c.joined
           THEN UNCHANGED confVars
           ELSE /\ conference' = [conference EXCEPT ![i] = r.c]
                /\ confLog' = Append(confLog,
                                     ConfEntry(i, "muc_joined", c.myroomjid, c, TRUE, r.did))
                /\ UNCHANGED announced
        /\ ConfUnchanged

\* An onMemberJoined that takes every member for a participant.
NobodySkipped(c, id) == FALSE

\* onMemberJoined: id === 'focus' || this.myUserId() === id
IsFocusOrSelf(c, id) == id = Focus \/ c.myroomjid = id

\* onMemberJoined: the member is stored as a participant unless it is the
\* focus or the local user; the decision runs if the room is joined.
OnMemberJoined(c, id, isHidden) ==
    IF IsFocusOrSelf(c, id)
    THEN [c |-> c, ran |-> FALSE, did |-> "none"]
    ELSE LET c1 == [c EXCEPT !.participants =
                        [p \in DOMAIN @ \cup {id} |->
                            IF p = id THEN NewParticipant(isHidden) ELSE @[p]]]
         IN  IF DecidesWhenJoined(c1.joined)
             THEN [c |-> MaybeStartOrStopP2P(c1).c, ran |-> TRUE,
                   did |-> MaybeStartOrStopP2P(c1).did]
             ELSE [c |-> c1, ran |-> FALSE, did |-> "none"]

\* ChatRoom.onPresence for another jid: a new member is stored; the focus is
\* initialised, any other new member is announced with muc_member_joined.
OnPresence(i, from, kind, isHidden, isFocus) ==
    LET c == conference[i]
        c1 == [c EXCEPT !.members = @ \cup {from}]
        r == OnMemberJoined(c1, from, isHidden)
    IN  /\ Handled
        /\ from # c.myroomjid
        /\ isFocus => from = Focus
        /\ from = Focus => (kind = "user" /\ ~isHidden)
        /\ IF from \in c.members
           THEN UNCHANGED confVars
           ELSE IF isFocus
           THEN /\ conference' = [conference EXCEPT ![i] = c1]
                /\ confLog' = Append(confLog, ConfEntry(i, "focus", from, c, FALSE, "none"))
                /\ UNCHANGED announced
           ELSE /\ conference' = [conference EXCEPT ![i] = r.c]
                /\ confLog' = Append(confLog,
                                     ConfEntry(i, "muc_member_joined", from, c, r.ran, r.did))
                /\ announced' = [announced EXCEPT ![i] =
                                    [p \in DOMAIN @ \cup {from} |->
                                        IF p = from THEN kind ELSE @[p]]]
        /\ ConfUnchanged

\* _maybeStartOrStopP2P is run once more.
Reevaluate(i) ==
    LET c == conference[i]
        r == MaybeStartOrStopP2P(c)
    IN  /\ Handled
        /\ conference' = [conference EXCEPT ![i] = r.c]
        /\ confLog' = Append(confLog, ConfEntry(i, "reevaluate", c.myroomjid, c, TRUE, r.did))
        /\ UNCHANGED announced
        /\ ConfUnchanged

\* ----------------------------------------------------- the signaling layer
\* The values handed over as SSRC: two numbers and a string of digits.
Ssrcs == {[type |-> "number", v |-> 1], [type |-> "number", v |-> 2],
          [type |-> "string", v |-> 1]}

Owners == {"e1", "e2"}

\* What Map.get returns for a key that is not there.
NoOwner == "undefined"

\* A map that keeps the first owner of a source.
SetOnce(map, ssrc, endpointId) ==
    IF ssrc \in DOMAIN map THEN map
    ELSE [k \in DOMAIN map \cup {ssrc} |-> IF k = ssrc THEN endpointId ELSE map[k]]

\* Map.set
MapSet(map, ssrc, endpointId) ==
    [k \in DOMAIN map \cup {ssrc} |-> IF k = ssrc THEN endpointId ELSE map[k]]

\* Map.get
MapGet(map, ssrc) == IF ssrc \in DOMAIN map THEN map[ssrc] ELSE NoOwner

SigUnchanged ==
    /\ UNCHANGED sessionVars
    /\ UNCHANGED pluginVars
    /\ UNCHANGED candVars
    /\ UNCHANGED connVars
    /\ UNCHANGED confVars
    /\ UNCHANGED trackVars
    /\ UNCHANGED callVars

\* setSSRCOwner(ssrc, endpointId): throws a TypeError unless ssrc is a number.
SetSSRCOwner(ssrc, endpointId) ==
    /\ Len(ownerLog) < MaxOwnerOps
    /\ ssrcOwners' = IF ssrc.type # "number" THEN ssrcOwners
                     ELSE MapSet(ssrcOwners, ssrc, endpointId)
    /\ ownerLog' = Append(ownerLog, [op |-> "set", ssrc |-> ssrc, owner |-> endpointId,
                                     threw |-> ssrc.type # "number"])
    /\ SigUnchanged

\* getSSRCOwner(ssrc)
GetSSRCOwner(ssrc) ==
    /\ Len(ownerLog) < MaxOwnerOps
    /\ ownerLog' = Append(ownerLog, [op |-> "get", ssrc |-> ssrc,
                                     owner |-> MapGet(ssrcOwners, ssrc), threw |-> FALSE])
    /\ UNCHANGED ssrcOwners
    /\ SigUnchanged

\* ------------------------------------------------------------ readSsrcInfo
\* The characters of an attribute are numbers: 0..9 the digits, 10 the minus
\* sign, 15 a letter.
IsDigit(ch) == ch \in 0..9

\* What Number gives for a text that is no number.
NaN == [type |-> "number", nan |-> TRUE]

Num(n) == [type |-> "number", v |-> n]

IsNaN(x) == x = NaN

\* The value of a text of digits.
RECURSIVE Digits(_)
Digits(text) ==
    IF text = <<>> THEN 0
    ELSE 10 * Digits(SubSeq(text, 1, Len(text) - 1)) + text[Len(text)]

AllDigits(text) == text # <<>> /\ \A k \in DOMAIN text : IsDigit(text[k])

\* Number(ssrcElement.getAttribute('ssrc')): getAttribute gives null for a
\* missing attribute and Number(null) and Number('') are 0.
Number(has, text) ==
    CASE ~has \/ text = <<>> -> Num(0)
      [] AllDigits(text) -> Num(Digits(text))
      [] text[1] = 10 /\ AllDigits(Tail(text)) -> Num(0 - Digits(Tail(text)))
      [] OTHER -> NaN

\* The source elements of a description: the ssrc attribute, if there is one,
\* and the owner of the ssrc-info child ("" without one).
SsrcTexts == {<<>>, <<7>>, <<1, 2>>, <<10, 5>>, <<15>>}

SourceElements ==
    {[has |-> TRUE, ssrc |-> text, owner |-> o] :
        text \in SsrcTexts, o \in {"", "e1"}}
    \cup {[has |-> FALSE, ssrc |-> <<>>, owner |-> o] : o \in {"", "e1"}}

\* Strophe.getResourceFromJid(this.remoteJid)
RemoteResource == "e2"

\* The body of ssrcs.each for one source element, on the map and the history.
ReadSource(sl, e, p2p) ==
    LET ssrc == Number(e.has, e.ssrc)
        owner == IF p2p THEN RemoteResource ELSE e.owner
        registers == IF p2p THEN TRUE
                     ELSE /\ e.owner # ""
                          /\ ~(IsNaN(ssrc) \/ ssrc.v < 0)
    IN  IF registers
        THEN [map |-> MapSet(sl.map, ssrc, owner),
              log |-> Append(sl.log, [op |-> "set", ssrc |-> ssrc, owner |-> owner,
                                      threw |-> FALSE])]
        ELSE sl

RECURSIVE ReadSources(_, _, _)
ReadSources(sl, contents, p2p) ==
    IF contents = <<>> THEN sl
    ELSE ReadSources(ReadSource(sl, Head(contents), p2p), Tail(contents), p2p)

\* readSsrcInfo(contents)
ReadSsrcInfo(contents) ==
    /\ Len(ownerLog) + Len(contents) <= MaxOwnerOps
    /\ LET sl == ReadSources([map |-> ssrcOwners, log |-> ownerLog], contents, isP2P)
       IN  /\ ssrcOwners' = sl.map
           /\ ownerLog' = Append(sl.log, [op |-> "read", ssrc |-> Num(Len(contents)),
                                          owner |-> "", threw |-> FALSE])
    /\ SigUnchanged

\* ----------------------------------------------------------- remote tracks
\* track.kind; "" stands for a track without a kind, "data" for a kind that is
\* neither audio nor video.
TrackKinds == {"audio", "video", "data", ""}

\* The native tracks.
NativeTracks == {1, 2}

\* What _remoteTrackAdded is called with: whether the stream is a user stream,
\* the kind of the track, whether the remote description has a media section
\* and an a=ssrc line for the stream, the text after "a=ssrc:", the track.
\* What the code does not look at is left at one value.
NoTrackInput ==
    [user |-> FALSE, kind |-> "audio", found |-> FALSE, text |-> <<>>, track |-> 1]

TrackInputs ==
    {NoTrackInput,
     [user |-> TRUE, kind |-> "", found |-> FALSE, text |-> <<>>, track |-> 1],
     [user |-> TRUE, kind |-> "audio", found |-> FALSE, text |-> <<>>, track |-> 1]}
    \cup {[user |-> TRUE, kind |-> k, found |-> TRUE, text |-> x, track |-> n] :
             k \in TrackKinds \ {""}, x \in SsrcTexts, n \in NativeTracks}

\* ChatRoom.onPresence: this.lastPresences[from] = nodes
PresenceStored(endpointId) ==
    /\ endpointId \notin lastPresences
    /\ lastPresences' = lastPresences \cup {endpointId}
    /\ UNCHANGED <<usesUnifiedPlan, remoteTracks, trackLog>>
    /\ UNCHANGED <<sessionVars, pluginVars, candVars, connVars, confVars, sigVars>>
    /\ UNCHANGED callVars

\* getPeerMediaInfo / getMediaPresenceInfo: null without a presence of the
\* owner and for a media type that is neither audio nor video.
HasPeerMediaInfo(presences, owner, mediaType) ==
    owner \in presences /\ mediaType \in {"audio", "video"}

\* A check that only asks for an owner.
ResolvableUnchecked(trackSsrc, ownerEndpointId) == ownerEndpointId # NoOwner

\* isNaN(trackSsrc) || trackSsrc < 0 returns, !ownerEndpointId returns.
Resolvable(trackSsrc, ownerEndpointId) ==
    /\ ~(IsNaN(trackSsrc) \/ trackSsrc.v < 0)
    /\ ownerEndpointId # NoOwner

\* _createRemoteTrack: nothing for the track that is already there, else the
\* new track replaces the entry of the owner and media type and is announced.
CreatesRemoteTrack(tracks, owner, mediaType, track) ==
    ~(<<owner, mediaType>> \in DOMAIN tracks /\ tracks[<<owner, mediaType>>] = track)

\* _remoteTrackAdded: "dropped" for each return, "threw" for plan B, where
\* mediaLines is never assigned and mediaLines.length throws a TypeError,
\* "known" for the track that is there already, "added" with the event.
RemoteTrackOutcome(in) ==
    LET trackSsrc == Number(TRUE, in.text)
        ownerEndpointId == MapGet(ssrcOwners, trackSsrc)
    IN  CASE ~isP2P /\ ~in.user -> "dropped"
          [] in.kind = "" -> "dropped"
          [] ~usesUnifiedPlan -> "threw"
          [] ~in.found -> "dropped"
          [] ~Resolvable(trackSsrc, ownerEndpointId) -> "dropped"
          [] ~HasPeerMediaInfo(lastPresences, ownerEndpointId, in.kind) -> "dropped"
          [] ~CreatesRemoteTrack(remoteTracks, ownerEndpointId, in.kind, in.track) -> "known"
          [] OTHER -> "added"

RemoteTrackAdded(in) ==
    /\ trackLog.n < MaxTrackCalls
    /\ LET outcome == RemoteTrackOutcome(in)
           owner == MapGet(ssrcOwners, Number(TRUE, in.text))
       IN  /\ remoteTracks' = IF outcome = "added"
                              THEN MapSet(remoteTracks, <<owner, in.kind>>, in.track)
                              ELSE remoteTracks
           /\ trackLog' = [n |-> trackLog.n + 1, in |-> in, outcome |-> outcome]
    /\ UNCHANGED <<usesUnifiedPlan, lastPresences>>
    /\ UNCHANGED <<sessionVars, pluginVars, candVars, connVars, confVars, sigVars>>
    /\ UNCHANGED callVars

\* ------------------------------------------- the sessions of the conference
\* _acceptJvbIncomingCall(jingleSession): stores the session as the bridged
\* one, then initializes it and, unless initialize threw, accepts its offer;
\* both exceptions are caught.  The session is the k-th one made by onJingle.
AcceptJvbIncomingCall(k, initThrows) ==
    /\ jvbJingleSession' = k
    /\ initialized' = IF initThrows THEN initialized ELSE initialized \cup {k}
    /\ callLog' = IF initThrows THEN callLog
                  ELSE Append(callLog, [op |-> "acceptOffer", session |-> k,
                                        ready |-> TRUE])

\* onIncomingCall(jingleSession, jingleOffer, now)
OnIncomingCall(k, initThrows) == AcceptJvbIncomingCall(k, initThrows)

\* onJingle with the conference listening: JitsiConferenceEventManager binds
\* onIncomingCall to the call-incoming event, which runs inside onJingle.
OnJingleInConference(action, jsid, from, initThrows) ==
    /\ initThrows => Dispatched(action)
    /\ OnJingleStep(action, jsid, from, FALSE)
    /\ IF Dispatched(action)
       THEN OnIncomingCall(Len(created) + 1, initThrows)
       ELSE UNCHANGED callVars
    /\ UNCHANGED <<sessionVars, candVars, connVars, confVars, sigVars, trackVars>>

\* _doReplaceTrack(oldTrack, newTrack): replaceTrack on the bridged session
\* and on the P2P session, whichever there is.
DoReplaceTrack ==
    /\ Len(callLog) < MaxCallOps
    /\ LET jvb == IF jvbJingleSession # 0
                  THEN <<[op |-> "replaceTrack", session |-> jvbJingleSession,
                          ready |-> jvbJingleSession \in initialized]>>
                  ELSE <<>>
           p2p == IF conference["A"].p2pJingleSession # NoSession
                  THEN <<[op |-> "replaceTrack", session |-> 0, ready |-> TRUE]>>
                  ELSE <<>>
       IN  callLog' = callLog \o <<[op |-> "_doReplaceTrack", session |-> 0,
                                    ready |-> TRUE]>> \o jvb \o p2p
    /\ UNCHANGED <<jvbJingleSession, initialized>>
    /\ UNCHANGED <<sessionVars, pluginVars, candVars, connVars, confVars, sigVars,
                   trackVars>>

\* ------------------------------------------------------- specifications
\* The constructors of TraceablePeerConnection and ChatRoom: no remote track,
\* no presence.
TrackInit ==
    /\ lastPresences = {}
    /\ remoteTracks = <<>>
    /\ trackLog = [n |-> 0, in |-> NoTrackInput, outcome |-> "none"]

\* The constructor of JitsiConference: this.jvbJingleSession = null.
CallInit ==
    /\ jvbJingleSession = 0
    /\ initialized = {}
    /\ callLog = <<>>

\* The constructor of SignalingLayerImpl: an empty map.
SigInit ==
    /\ ssrcOwners = <<>>
    /\ ownerLog = <<>>

\* The constructors of ChatRoom and JitsiConference: not joined, nobody there.
NewConference(id) ==
    [myroomjid |-> id, joined |-> FALSE, members |-> {}, participants |-> <<>>,
     p2pJingleSession |-> NoSession]

ConfInit ==
    /\ announced = [i \in Instances |-> <<>>]
    /\ confLog = <<>>

\* The constructor and doInitialize: nothing connected yet.
ConnInit ==
    /\ iceConnectionState = "new"
    /\ sigSeen = "stable"
    /\ wasstable = FALSE
    /\ wasConnected = FALSE
    /\ isReconnect = FALSE
    /\ events = [changed |-> 0, restored |-> 0, established |-> 0, suspend |-> 0]

\* doInitialize: no candidate seen yet.
CandInit ==
    /\ lasticecandidate = FALSE
    /\ dripContainer = <<>>
    /\ dripTimer = FALSE
    /\ armed = 0
    /\ given = <<>>
    /\ transportInfo = <<>>

\* The constructor: a session in state PENDING with an empty queue.
SessionInit ==
    /\ sid \in Sids
    /\ isInitiator \in BOOLEAN
    /\ isP2P \in BOOLEAN
    /\ state = "pending"
    /\ localRecvMaxFrameHeight = Undefined
    /\ codec = "vp8"
    /\ task = [t \in TaskIds |-> NoTask]
    /\ queue = <<>>
    /\ busy = 0
    /\ chain = [t \in TaskIds |-> "none"]
    /\ icePending = [t \in TaskIds |-> 0]
    /\ signalingState = "stable"
    /\ remoteDescription = FALSE
    /\ localDescription = FALSE
    /\ localTracks = {}
    /\ activations = 0
    /\ api = [n |-> 0, op |-> "none", threw |-> FALSE]
    /\ log = <<>>

PluginInit ==
    /\ sessions = {}
    /\ created = <<>>
    /\ incoming = <<>>
    /\ inbox = <<>>
    /\ acks = <<>>

\* A session that batches its candidates.
Init ==
    /\ SessionInit
    /\ PluginInit
    /\ usedrip = TRUE
    /\ CandInit
    /\ pcOptions = [enableIceRestart |-> FALSE, unifiedChromium |-> FALSE]
    /\ ConnInit
    /\ conference = [i \in Instances |-> NewConference(IF i = "A" THEN <<1, 0>> ELSE <<2, 0>>)]
    /\ ConfInit
    /\ SigInit
    /\ usesUnifiedPlan = TRUE
    /\ TrackInit
    /\ CallInit

\* A session with or without batching.
InitCand ==
    /\ SessionInit
    /\ PluginInit
    /\ usedrip \in BOOLEAN
    /\ CandInit
    /\ pcOptions = [enableIceRestart |-> FALSE, unifiedChromium |-> FALSE]
    /\ ConnInit
    /\ conference = [i \in Instances |-> NewConference(IF i = "A" THEN <<1, 0>> ELSE <<2, 0>>)]
    /\ ConfInit
    /\ SigInit
    /\ usesUnifiedPlan = TRUE
    /\ TrackInit
    /\ CallInit

\* A session on any browser, with or without ICE restarts.
InitConn ==
    /\ SessionInit
    /\ PluginInit
    /\ usedrip = TRUE
    /\ CandInit
    /\ pcOptions \in [enableIceRestart : BOOLEAN, unifiedChromium : BOOLEAN]
    /\ ConnInit
    /\ conference = [i \in Instances |-> NewConference(IF i = "A" THEN <<1, 0>> ELSE <<2, 0>>)]
    /\ ConfInit
    /\ SigInit
    /\ usesUnifiedPlan = TRUE
    /\ TrackInit
    /\ CallInit

\* Two conferences with any ids, and one session.
InitConf ==
    /\ SessionInit
    /\ PluginInit
    /\ usedrip = TRUE
    /\ CandInit
    /\ pcOptions = [enableIceRestart |-> FALSE, unifiedChromium |-> FALSE]
    /\ ConnInit
    /\ \E a \in Ids, b \in Ids :
          conference = [i \in Instances |-> NewConference(IF i = "A" THEN a ELSE b)]
    /\ ConfInit
    /\ SigInit
    /\ usesUnifiedPlan = TRUE
    /\ TrackInit
    /\ CallInit

Next ==
    \/ \E tracks \in TrackLists : AcceptOffer(tracks)
    \/ \E tracks \in TrackLists : Invite(tracks)
    \/ SetAnswer
    \/ \E p \in ReplacePairs : ReplaceTrack(p[1], p[2])
    \/ \E preferred \in Codecs : SetVideoCodecs(preferred)
    \/ \E n \in 0..MaxCands : AddIceCandidates(n)
    \/ QueueProcess
    \/ \E t \in TaskIds, ok \in BOOLEAN, reneg \in BOOLEAN : Settle(t, ok, reneg)
    \/ \E t \in TaskIds : IceSettle(t)
    \/ PcClose

Spec == Init /\ [][Next]_vars

\* The whole session: the methods that do not use the queue, and the end of
\* the session, which can come at any moment.
NextEnded ==
    \/ Next
    \/ SendIceCandidates
    \/ \E h \in Heights : SetReceiverVideoConstraint(h)
    \/ SetSenderVideoConstraint
    \/ Terminate

SpecEnded == Init /\ [][NextEnded]_vars

\* The plugin, and the session while it accepts an offer.
NextJingle ==
    \/ \E action \in JingleActions, jsid \in JingleSids, throws \in BOOLEAN :
          OnJingle(action, jsid, "focus", throws)
    \/ \E tracks \in TrackLists : AcceptOffer(tracks)
    \/ QueueProcess
    \/ \E t \in TaskIds, ok \in BOOLEAN : Settle(t, ok, FALSE)

SpecJingle == Init /\ [][NextJingle]_vars

\* The plugin alone, with stanzas from the focus and from a participant.
NextPlugin ==
    \E action \in JingleActions, jsid \in JingleSids, from \in Resources,
       throws \in BOOLEAN : OnJingle(action, jsid, from, throws)

SpecPlugin == Init /\ [][NextPlugin]_vars

\* Remote candidates arriving around an offer/answer cycle.
NextIce ==
    \/ \E tracks \in TrackLists : AcceptOffer(tracks)
    \/ SetAnswer
    \/ \E n \in 0..MaxBatch : AddIceCandidates(n)
    \/ QueueProcess
    \/ \E t \in TaskIds, ok \in BOOLEAN : Settle(t, ok, FALSE)
    \/ \E t \in TaskIds : IceSettle(t)
    \/ PcClose

SpecIce == Init /\ [][NextIce]_vars

\* The candidates gathered once a local description has been applied.
NextCand ==
    \/ AcceptOffer({})
    \/ Invite({})
    \/ QueueProcess
    \/ \E t \in TaskIds, ok \in BOOLEAN : Settle(t, ok, FALSE)
    \/ \E mid \in Mids, parses \in BOOLEAN : SendIceCandidate("cand", mid, parses)
    \/ \E kind \in CandKinds \ {"cand"} : SendIceCandidate(kind, 0, TRUE)
    \/ DripTimerFires

SpecCand == InitCand /\ [][NextCand]_vars

\* Tracks replaced before and after the session became active.
NextReplace ==
    \/ AcceptOffer({})
    \/ Invite({})
    \/ SetAnswer
    \/ \E p \in ReplacePairs : ReplaceTrack(p[1], p[2])
    \/ QueueProcess
    \/ \E t \in TaskIds, ok \in BOOLEAN, reneg \in BOOLEAN : Settle(t, ok, reneg)
    \/ PcClose

SpecReplace == Init /\ [][NextReplace]_vars

\* The receive preference set before and after the session became active.
NextConstraint ==
    \/ AcceptOffer({})
    \/ Invite({})
    \/ SetAnswer
    \/ \E h \in Heights : SetReceiverVideoConstraint(h)
    \/ QueueProcess
    \/ \E t \in TaskIds, ok \in BOOLEAN : Settle(t, ok, FALSE)

SpecConstraint == Init /\ [][NextConstraint]_vars

\* The connection coming up and going down around the first offer/answer cycle.
NextConn ==
    \/ AcceptOffer({})
    \/ Invite({})
    \/ SetAnswer
    \/ QueueProcess
    \/ \E t \in TaskIds : Settle(t, TRUE, FALSE)
    \/ PcClose
    \/ OnSignalingStateChange
    \/ \E ice \in IceStates : OnIceConnectionStateChange(ice)

SpecConn == InitConn /\ [][NextConn]_vars

\* One conference and the presences of its room.
NextConf ==
    \/ OnOwnPresence("A")
    \/ \E from \in Ids \cup {Focus}, kind \in Kinds, isHidden \in BOOLEAN,
          isFocus \in BOOLEAN : OnPresence("A", from, kind, isHidden, isFocus)

SpecConf == InitConf /\ [][NextConf]_vars

\* One conference whose decision is also run again between the presences.
NextReevaluate ==
    \/ OnOwnPresence("A")
    \/ \E from \in Ids \cup {Focus}, isFocus \in BOOLEAN :
          OnPresence("A", from, "user", FALSE, isFocus)
    \/ Reevaluate("A")

SpecReevaluate == InitConf /\ [][NextReevaluate]_vars

\* Two conferences of one room, each told about the members of the room.
NextPair ==
    \/ \E i \in Instances : OnOwnPresence(i)
    \/ \E i \in Instances, from \in Ids : OnPresence(i, from, "user", FALSE, FALSE)

SpecPair == InitConf /\ [][NextPair]_vars

\* Tasks that fail, in their chain or in their body, and the tasks behind them.
NextThrow ==
    \/ \E tracks \in TrackLists : AcceptOffer(tracks)
    \/ Invite({})
    \/ SetAnswer
    \/ \E p \in ReplacePairs : ReplaceTrack(p[1], p[2])
    \/ QueueProcess
    \/ QueueProcessThrows
    \/ \E t \in TaskIds, ok \in BOOLEAN : Settle(t, ok, FALSE)

SpecThrow == Init /\ [][NextThrow]_vars

\* An accepted offer, the answer to its session-accept, and the tasks behind it.
NextAccept ==
    \/ AcceptOffer({})
    \/ \E p \in ReplacePairs : ReplaceTrack(p[1], p[2])
    \/ QueueProcess
    \/ \E t \in TaskIds, ok \in BOOLEAN : Settle(t, ok, FALSE)
    \/ \E outcome \in IqOutcomes : IqResponse(outcome)

SpecAccept == Init /\ [][NextAccept]_vars

\* Calls of acceptOffer only, where the queue gets to run, every promise of
\* the peer connection settles and every IQ sent gets its answer or its
\* timeout.
NextAcceptLive ==
    \/ AcceptOffer({})
    \/ QueueProcess
    \/ \E t \in TaskIds, ok \in BOOLEAN : Settle(t, ok, FALSE)
    \/ \E outcome \in IqOutcomes : IqResponse(outcome)

SpecAcceptLive ==
    /\ Init /\ [][NextAcceptLive]_vars
    /\ WF_vars(QueueProcess)
    /\ WF_vars(\E t \in TaskIds, ok \in BOOLEAN : Settle(t, ok, FALSE))
    /\ WF_vars(\E outcome \in IqOutcomes : IqResponse(outcome))

\* The owners of the SSRCs registered and looked up in any order.
NextOwners ==
    \/ \E ssrc \in Ssrcs, endpointId \in Owners : SetSSRCOwner(ssrc, endpointId)
    \/ \E ssrc \in Ssrcs : GetSSRCOwner(ssrc)

SpecOwners == Init /\ [][NextOwners]_vars

NextSsrc ==
    \/ \E e \in SourceElements : ReadSsrcInfo(<<e>>)
    \/ \E ssrc \in Ssrcs : GetSSRCOwner(ssrc)

SpecSsrc == Init /\ [][NextSsrc]_vars

\* The peer connection of a responder, in unified plan or in plan B.
InitTrack ==
    /\ SessionInit
    /\ ~isInitiator
    /\ sid = "s1"
    /\ PluginInit
    /\ usedrip = TRUE
    /\ CandInit
    /\ pcOptions = [enableIceRestart |-> FALSE, unifiedChromium |-> FALSE]
    /\ ConnInit
    /\ conference = [i \in Instances |-> NewConference(IF i = "A" THEN <<1, 0>> ELSE <<2, 0>>)]
    /\ ConfInit
    /\ SigInit
    /\ usesUnifiedPlan \in BOOLEAN
    /\ TrackInit
    /\ CallInit

NextTrack ==
    \/ \E e \in SourceElements : ReadSsrcInfo(<<e>>)
    \/ \E endpointId \in Owners : PresenceStored(endpointId)
    \/ \E in \in TrackInputs : RemoteTrackAdded(in)

SpecTrack == InitTrack /\ [][NextTrack]_vars

NextCall ==
    \/ \E action \in JingleActions, jsid \in JingleSids, from \in Resources,
          initThrows \in BOOLEAN :
            OnJingleInConference(action, jsid, from, initThrows)
    \/ DoReplaceTrack

SpecCall == Init /\ [][NextCall]_vars

\* A session that is offered or accepts, with the conference's callbacks.
NextAnswer ==
    \/ Invite({})
    \/ AcceptOffer({})
    \/ \E same \in BOOLEAN : OnCallAccepted(same)
    \/ QueueProcess
    \/ \E t \in TaskIds, ok \in BOOLEAN : Settle(t, ok, FALSE)
    \/ \E outcome \in IqOutcomes : IqResponse(outcome)

SpecAnswer == Init /\ [][NextAnswer]_vars

\* ------------------------------------------------------------ the claims
Mutations == {"addTrack", "createOffer", "createAnswer", "setLocalDescription",
              "setRemoteDescription", "replaceTrack", "addIceCandidate"}
OfferAnswerOps == {"createOffer", "createAnswer", "setLocalDescription",
                   "setRemoteDescription"}
OaKinds == {"accept", "answer"}

\* The history of one task.
Proj(t) == SelectSeq(log, LAMBDA e : e.t = t)

Has(t, op, ev) == \E i \in DOMAIN log : log[i].t = t /\ log[i].op = op /\ log[i].ev = ev

Count(t, op, ev) ==
    Cardinality({i \in DOMAIN log : log[i].t = t /\ log[i].op = op /\ log[i].ev = ev})

\* C1: tasks are pushed in the order of their ids; no call that changes the
\* peer connection is made by a task before the completion callback of every
\* task pushed before it has fired.
C1_Serialized ==
    LET fin == [t1 \in TaskIds |->
                  {j \in DOMAIN log : log[j].t = t1 /\ log[j].op = "finishedCallback"}]
    IN  \A i \in DOMAIN log :
            (log[i].t > 1 /\ log[i].ev = "call" /\ log[i].op \in Mutations) =>
                \A t1 \in 1..(log[i].t - 1) :
                    task[t1].kind # "none" => \E j \in fin[t1] : j < i

\* A second task called the peer connection after a first task whose chain
\* had several asynchronous steps.
C1_Witness ==
    /\ Count(1, "createOffer", "ok") + Count(1, "setLocalDescription", "ok")
         + Count(1, "setRemoteDescription", "ok") >= 2
    /\ \E i \in DOMAIN log :
          log[i].t = 2 /\ log[i].ev = "call" /\ log[i].op \in Mutations

\* C2: the state goes from PENDING to ACTIVE at most once: it is counted at
\* most once, and once the state has been seen other than PENDING it is not
\* PENDING at the next entry of the history, nor now.
C2_ActivatesOnce ==
    /\ activations <= 1
    /\ \A i \in DOMAIN log :
          log[i].st # "pending" =>
              IF i < Len(log) THEN log[i + 1].st # "pending" ELSE state # "pending"

\* Two offer/answer cycles succeeded on one session.
C2_Witness ==
    /\ activations = 1
    /\ \E t1 \in TaskIds : \E t2 \in TaskIds :
          /\ t1 # t2
          /\ task[t1].kind \in OaKinds /\ Has(t1, "finishedCallback", "ok")
          /\ task[t2].kind \in OaKinds /\ Has(t2, "finishedCallback", "ok")

\* The last call of a renegotiation cycle.
LastStep == IF isInitiator THEN "setRemoteDescription" ELSE "setLocalDescription"

\* C3: the state is PENDING at first and leaves PENDING only where the last
\* step of the chain of an offer/answer cycle resolves; it is ACTIVE when the
\* success callback of the cycle runs; a cycle started in PENDING whose chain
\* rejects calls the failure callback with the state still PENDING.
C3_ActiveBeforeSuccess ==
    /\ log = <<>> => state = "pending"
    /\ log # <<>> => log[1].st = "pending"
    /\ \A i \in DOMAIN log :
          LET e == log[i]
              oa == e.t > 0 /\ task[e.t].kind \in OaKinds
              after == IF i < Len(log) THEN log[i + 1].st ELSE state
          IN  /\ (e.st = "pending" /\ after # "pending") =>
                    (oa /\ e.op = LastStep /\ e.ev = "ok")
              /\ (oa /\ e.op = "success") => e.st = "active"
              /\ (oa /\ e.op = "finishedCallback" /\ e.ev = "err") =>
                    /\ i < Len(log)
                    /\ log[i + 1].t = e.t /\ log[i + 1].op = "failure"
                    /\ Proj(e.t)[1].st = "pending" => log[i + 1].st = "pending"

\* A first cycle succeeded and its success callback ran.
C3_Witness ==
    \E i \in DOMAIN log :
        /\ log[i].t > 0
        /\ log[i].op = "success" /\ task[log[i].t].kind \in OaKinds
        /\ Proj(log[i].t)[1].st = "pending"

\* C4: on a responder session, an acceptOffer whose offer/answer cycle
\* succeeded sent exactly one session-accept; it carries the sid of the
\* session, was sent after setLocalDescription resolved, in state ACTIVE.
C4_OneSessionAccept ==
    \A t \in TaskIds :
        (~isInitiator /\ task[t].kind = "accept" /\ Has(t, "finishedCallback", "ok")) =>
            /\ Count(t, "session-accept", "send") = 1
            /\ \A i \in DOMAIN log :
                  (log[i].t = t /\ log[i].op = "session-accept") =>
                      /\ log[i].arg = sid
                      /\ log[i].st = "active"
                      /\ \E j \in 1..(i - 1) :
                            /\ log[j].t = t
                            /\ log[j].op = "setLocalDescription" /\ log[j].ev = "ok"

\* A responder accepted an offer with both local tracks.
C4_Witness ==
    /\ ~isInitiator
    /\ \E t \in TaskIds :
          /\ task[t].kind = "accept" /\ task[t].tracks = Tracks
          /\ Has(t, "session-accept", "send")

\* C5: an acceptOffer whose task failed called the failure callback and sent
\* no session-accept.
C5_FailureSendsNothing ==
    \A t \in TaskIds :
        (task[t].kind = "accept" /\ Has(t, "finishedCallback", "err")) =>
            /\ Count(t, "failure", "cb") = 1
            /\ Count(t, "session-accept", "send") = 0

\* An acceptOffer failed when the answer could not be created.
C5_Witness ==
    \E t \in TaskIds :
        /\ task[t].kind = "accept"
        /\ Has(t, "createAnswer", "err")
        /\ Has(t, "failure", "cb")

\* C6: invite and setAnswer on a responder session throw and change nothing:
\* no task, no history entry (call, stanza), same session and peer connection.
C6_ResponderThrows ==
    [][(api'.n # api.n /\ api'.op \in {"invite", "setAnswer"} /\ ~isInitiator) =>
          /\ api'.threw
          /\ UNCHANGED <<task, queue, busy, chain, log, state, signalingState,
                         remoteDescription, localDescription, localTracks>>]_vars

\* invite threw on a responder session.
C6_Witness == ~isInitiator /\ api.op = "invite" /\ api.threw

\* C7: an invite adds its tracks, then calls createOffer, then
\* setLocalDescription once createOffer resolved, then sends one
\* session-initiate once setLocalDescription resolved; an invite in which a
\* step rejected sent none, an invite that completed sent one.
C7_InviteOrder ==
    \A t \in TaskIds :
        task[t].kind = "invite" =>
            LET P == Proj(t)
                n == Cardinality(task[t].tracks)
            IN /\ \A k \in DOMAIN P :
                    /\ P[k].op = "addTrack" => k <= n
                    /\ (P[k].op = "createOffer" /\ P[k].ev = "call") =>
                          /\ k = n + 1
                          /\ \A j \in 1..n : P[j].op = "addTrack"
                    /\ (P[k].op = "setLocalDescription" /\ P[k].ev = "call") =>
                          /\ k = n + 3
                          /\ P[k - 1].op = "createOffer" /\ P[k - 1].ev = "ok"
                    /\ P[k].op = "session-initiate" =>
                          /\ k = n + 5
                          /\ P[k - 1].op = "setLocalDescription" /\ P[k - 1].ev = "ok"
                          /\ P[k].arg = sid
               /\ (\E k \in DOMAIN P : P[k].ev = "err") =>
                     Count(t, "session-initiate", "send") = 0
               /\ Has(t, "finishedCallback", "ok") =>
                     Count(t, "session-initiate", "send") = 1

\* An invite with both local tracks sent its session-initiate.
C7_Witness ==
    \E t \in TaskIds :
        /\ task[t].kind = "invite" /\ task[t].tracks = Tracks
        /\ Has(t, "session-initiate", "send")

\* C8: a _renegotiate that found the peer connection closed, or no remote
\* description, emitted RENEGOTIATION_FAILED once and rejected: its task ended
\* with the error, and made no offer/answer call after it.
C8_RenegotiateRejects ==
    \A i \in DOMAIN log :
        (log[i].op = "_renegotiate"
            /\ (log[i].ev = "closed" \/ log[i].arg = "noremote")) =>
            LET t == log[i].t
            IN /\ i + 2 <= Len(log)
               /\ log[i + 1].t = t
               /\ log[i + 1].op = "RENEGOTIATION_FAILED" /\ log[i + 1].ev = "emit"
               /\ log[i + 2].t = t
               /\ log[i + 2].op = "finishedCallback" /\ log[i + 2].ev = "err"
               /\ \A j \in (i + 2)..Len(log) :
                     log[j].t = t =>
                         /\ log[j].op # "RENEGOTIATION_FAILED"
                         /\ log[j].op \notin OfferAnswerOps

\* An initiator session renegotiated with no remote description.
C8_Witness ==
    /\ isInitiator
    /\ \E i \in DOMAIN log : log[i].op = "_renegotiate" /\ log[i].arg = "noremote"

\* The order of the calls of one renegotiation.
RoleOrder ==
    IF isInitiator
    THEN <<"createOffer", "setLocalDescription", "setRemoteDescription">>
    ELSE <<"setRemoteDescription", "createAnswer", "setLocalDescription">>

\* C9: after a _renegotiate that went ahead, the offer/answer calls of the
\* task are those of its role, in order, each made after the one before
\* resolved, and none is made after one rejected.
C9_RoleOrder ==
    \A t \in TaskIds :
        task[t].kind \notin {"none", "invite", "ice"} =>
            LET P == Proj(t)
            IN \A r \in DOMAIN P :
                  (P[r].op = "_renegotiate" /\ P[r].ev = "open" /\ P[r].arg = "remote") =>
                      \A k \in 1..(Len(P) - r) :
                          IF k <= 6 /\ \A k2 \in 1..(k - 1) : P[r + k2].ev # "err"
                          THEN /\ P[r + k].op = RoleOrder[(k + 1) \div 2]
                               /\ IF k % 2 = 1 THEN P[r + k].ev = "call"
                                               ELSE P[r + k].ev \in {"ok", "err"}
                          ELSE P[r + k].op \notin OfferAnswerOps

\* An initiator session applied the remote answer at the end of a cycle.
C9_Witness ==
    /\ isInitiator
    /\ \E t \in TaskIds :
          /\ Has(t, "_renegotiate", "open")
          /\ Has(t, "setRemoteDescription", "ok")

\* The calls made on the peer connection and the stanzas sent.
Effects == SelectSeq(log, LAMBDA e : e.ev \in {"call", "send"} /\ e.op # "rtc.setReceiverVideoConstraint")

\* C10: a public operation called on a session in state ENDED pushes no task,
\* calls nothing on the peer connection and sends no stanza.
C10_EndedShortCircuits ==
    [][(state = "ended" /\ api'.n # api.n) =>
          /\ queue' = queue
          /\ Effects' = Effects]_vars

\* The IQ onJingle has just handled.
LastIq == inbox[Len(inbox)]

\* C11: the run of onJingle that handles a session-terminate carrying the
\* sid of the session, in state PENDING or ACTIVE, leaves the session ENDED.
C11_TerminateEnds ==
    [][(/\ Len(inbox') > Len(inbox)
        /\ LastIq'.action = "session-terminate" /\ LastIq'.sid = sid
        /\ state \in {"pending", "active"}) => state' = "ended"]_vars

\* C20: every IQ handed to onJingle got exactly one result IQ with its id.
C20_OneAckEach ==
    \A i \in DOMAIN inbox :
        Cardinality({k \in DOMAIN acks : acks[k] = inbox[i].id}) = 1

\* C12: the candidates of one addIceCandidates call are applied by one task,
\* queued once; the task hands all of them to the peer connection, in the
\* order of the stanza, and none before every offer/answer task pushed
\* earlier has signalled its completion.
C12_IceAfterOfferAnswer ==
    \A t \in TaskIds :
        task[t].kind = "ice" =>
            LET P == Proj(t)
            IN  /\ Cardinality({k \in DOMAIN queue : queue[k] = t}) <= 1
                /\ (\E k \in DOMAIN queue : queue[k] = t) => P = <<>>
                /\ P # <<>> =>
                      /\ Len(P) = task[t].n + 1
                      /\ \A k \in 1..task[t].n :
                            /\ P[k].op = "addIceCandidate" /\ P[k].ev = "call"
                            /\ P[k].arg = ToString(k)
                /\ \A i \in DOMAIN log :
                      (log[i].t = t /\ log[i].op = "addIceCandidate") =>
                          \A t1 \in 1..(t - 1) :
                              task[t1].kind \in OaKinds =>
                                  \E j \in 1..(i - 1) :
                                      /\ log[j].t = t1
                                      /\ log[j].op = "finishedCallback"

\* A batch of two candidates, queued behind an offer/answer task, was applied.
C12_Witness ==
    /\ task[1].kind \in OaKinds /\ Has(1, "setLocalDescription", "ok")
    /\ task[2].kind = "ice" /\ task[2].n = 2
    /\ Has(2, "addIceCandidate", "call")

\* C13: an addIceCandidates call made while the signaling state is closed, or
\* with no candidate in the stanza, does not throw, pushes no task and calls
\* nothing on the peer connection.
C13_IceDropped ==
    [][\A n \in 0..MaxBatch :
          (AddIceCandidates(n) /\ (signalingState = "closed" \/ n = 0)) =>
              /\ ~api'.threw
              /\ UNCHANGED <<task, queue, busy, chain, icePending, log>>]_vars

\* addIceCandidates was called on a closed connection and queued nothing.
C13_Witness ==
    /\ api.op = "addIceCandidates" /\ ~api.threw
    /\ signalingState = "closed"
    /\ task[api.n].kind = "none"

\* The last call of sendIceCandidate.
LastGiven == given[Len(given)]

\* C14: a sendIceCandidate call with null sets lasticecandidate, sends no
\* transport-info and adds nothing to the batch; once set, lasticecandidate is
\* never cleared again.
C14_EndOfCandidates ==
    [][/\ lasticecandidate => lasticecandidate'
       /\ (Len(given') > Len(given) /\ LastGiven'.kind = "null") =>
              /\ lasticecandidate'
              /\ UNCHANGED <<dripContainer, dripTimer, transportInfo, log>>]_vars

\* null was given, a candidate came later, and the latch is still set.
C14_Witness ==
    /\ Len(given) >= 2
    /\ given[1].kind = "null"
    /\ given[2].kind = "cand"
    /\ lasticecandidate

\* The candidates of the calls that satisfy Test, as a transport-info lists them.
CandsOf(Test(_)) ==
    LET sel == SelectSeq(given, Test)
    IN  [k \in DOMAIN sel |-> [id |-> sel[k].id, mid |-> sel[k].mid]]

\* The end of the candidates had been seen before call i.
LatchedBefore(i) == \E j \in 1..(i - 1) : given[j].kind # "cand"

\* C15 as the specification states it: with batching, every transport-info
\* carries all the candidates given while its timer was armed, in the order
\* of their discovery.
C15_DiscoveryOrder ==
    usedrip =>
        \A k \in DOMAIN transportInfo :
            transportInfo[k] = CandsOf(LAMBDA g : g.kind = "cand" /\ g.w = k)

\* C15, amended: with batching, the candidates given while a timer was armed
\* that could be converted and came before the end of the candidates are sent
\* in one transport-info when the timer expires, grouped by media section in
\* the order of the sections and in discovery order within a section.
C15_OneBatchPerWindow ==
    usedrip =>
        /\ Len(transportInfo) = armed - (IF dripTimer THEN 1 ELSE 0)
        /\ \A i \in DOMAIN given :
              given[i].taken <=>
                  (given[i].kind = "cand" /\ given[i].parses /\ ~LatchedBefore(i))
        /\ dripTimer => dripContainer = CandsOf(LAMBDA g : g.taken /\ g.w = armed)
        /\ \A k \in DOMAIN transportInfo :
              LET sent == transportInfo[k]
                  win == CandsOf(LAMBDA g : g.taken /\ g.w = k)
              IN  /\ Len(sent) = Len(win)
                  /\ {sent[i] : i \in DOMAIN sent} = {win[i] : i \in DOMAIN win}
                  /\ \A i, j \in DOMAIN sent :
                        i < j => \/ sent[i].mid < sent[j].mid
                                 \/ /\ sent[i].mid = sent[j].mid
                                    /\ sent[i].id < sent[j].id

\* A batch of two candidates was sent whose second section came first.
C15_Witness ==
    /\ usedrip
    /\ \E k \in DOMAIN transportInfo :
          /\ Len(transportInfo[k]) = 2
          /\ transportInfo[k][1].id > transportInfo[k][2].id

\* The entries of task t that start a renegotiation.
Renegotiations(t) == {i \in DOMAIN log : log[i].t = t /\ log[i].op = "_renegotiate"}

\* The callback of task t has run: the promise of the method is settled.
Settled(t) == \E i \in DOMAIN log : log[i].t = t /\ log[i].ev = "cb"

Rejected(t) ==
    \E i \in DOMAIN log :
        /\ log[i].t = t
        /\ log[i].ev = "err" \/ log[i].op = "RENEGOTIATION_FAILED"

\* What the history of a replaceTrack task with a track looks like.
ReplaceHistory(t) ==
    LET P == Proj(t)
    IN  /\ Cardinality(Renegotiations(t)) <= 1
        /\ \A op \in OfferAnswerOps : Count(t, op, "call") <= Cardinality(Renegotiations(t))
        /\ \A i \in Renegotiations(t) :
              /\ log[i].st = "active"
              /\ \E j \in 1..(i - 1) :
                    log[j].t = t /\ log[j].op = "replaceTrack" /\ log[j].ev = "ok"
        /\ Settled(t) =>
              /\ P[Len(P)].ev = "cb"
              /\ Count(t, "success", "cb") + Count(t, "failure", "cb") = 1
              /\ chain[t] = "none"
              /\ Has(t, "failure", "cb") <=> Rejected(t)
              /\ Has(t, "success", "cb") =>
                    /\ Has(t, "replaceTrack", "ok")
                    /\ Renegotiations(t) # {} => Has(t, LastStep, "ok")
                    /\ IsVideo(task[t].new) => Has(t, "setMaxBitRate", "ok")

\* C16: a replaceTrack with a track renegotiates once, right after the swap,
\* exactly when the swap asks for it and the session is ACTIVE, and not at all
\* otherwise; its promise settles after the whole chain, the renegotiation
\* included, and rejects exactly when a step of the chain rejected.
C16_ReplaceRenegotiates ==
    [][\A t \in TaskIds :
          (task[t].kind = "replace" /\ (task[t].old # 0 \/ task[t].new # 0)) =>
              /\ ReplaceHistory(t)'
              /\ \A reneg \in BOOLEAN :
                    (chain[t] = "replaceTrack" /\ Settle(t, TRUE, reneg)) =>
                        /\ Renegotiations(t) = {}
                        /\ Renegotiations(t)' # {} <=> (reneg /\ state = "active")]_vars

\* An active session replaced a track, renegotiated and resolved the promise.
C16_Witness ==
    \E t \in TaskIds :
        /\ task[t].kind = "replace" /\ task[t].new = VideoTrack
        /\ Renegotiations(t) # {}
        /\ Has(t, "success", "cb")

\* The content-modify stanzas sent so far.
ContentModifies ==
    SelectSeq(log, LAMBDA e : e.op = "content-modify" /\ e.ev = "send")

\* C17: setReceiverVideoConstraint(h) stores h; a P2P session sends one
\* content-modify at once when it is ACTIVE and nothing otherwise; a bridged
\* session sends no content-modify and hands h to rtc.setReceiverVideoConstraint.
C17_ReceiverConstraint ==
    [][\A h \in Heights :
          SetReceiverVideoConstraint(h) =>
              /\ localRecvMaxFrameHeight' = h
              /\ isP2P =>
                    log' = IF state = "active"
                           THEN Append(log, [t |-> 0, op |-> "content-modify",
                                             ev |-> "send", arg |-> sid, st |-> state])
                           ELSE log
              /\ ~isP2P =>
                    log' = Append(log, [t |-> 0, op |-> "rtc.setReceiverVideoConstraint",
                                        ev |-> "call", arg |-> ToString(h),
                                        st |-> state])]_vars

\* An active P2P session was given a preference and signalled it.
C17_Witness ==
    /\ isP2P /\ state = "active"
    /\ api.op = "setReceiverVideoConstraint"
    /\ localRecvMaxFrameHeight = 180
    /\ log # <<>>
    /\ log[Len(log)].t = 0 /\ log[Len(log)].op = "content-modify"

\* C18: the step that takes the session from PENDING to ACTIVE sends one
\* content-modify exactly when the session is P2P and the local video is
\* inactive or a receive preference was stored while PENDING; a bridged
\* session sends none.
C18_SyncOnActivation ==
    [][(state = "pending" /\ state' = "active") =>
          /\ Len(ContentModifies') - Len(ContentModifies) \in {0, 1}
          /\ Len(ContentModifies') - Len(ContentModifies) = 1 <=>
                (isP2P /\ (~localVideoActive \/ localRecvMaxFrameHeight # Undefined))]_vars

\* C19: whatever the sequence of ICE connection states, CONNECTION_ESTABLISHED
\* is emitted at most once, and wasConnected, once true, stays true.
C19_EstablishedOnce ==
    [][/\ events'.established <= 1
       /\ wasConnected => wasConnected'
       /\ wasConnected' <=> events'.established = 1]_vars

\* The connection came up, went down and came up again.
C19_Witness ==
    /\ wasConnected
    /\ iceConnectionState = "connected"
    /\ events.changed >= 3
    /\ events.established = 1

\* C21: an inbound session-initiate makes onJingle construct one session, a
\* responder with the sid of the stanza, bridged with the bridge ICE config
\* exactly when the resource of the sender is focus and P2P with the P2P ICE
\* config otherwise, and emit one call-incoming event that carries it.
C21_IncomingSession ==
    [][(Len(inbox') > Len(inbox) /\ LastIq'.action = "session-initiate") =>
          LET sess == created'[Len(created')]
          IN  /\ Len(created') = Len(created) + 1
              /\ sess.sid = LastIq'.sid
              /\ ~sess.isInitiator
              /\ ~sess.isP2P <=> LastIq'.from = "focus"
              /\ sess.iceConfig = "jvb" <=> LastIq'.from = "focus"
              /\ sess.iceConfig = "p2p" <=> sess.isP2P
              /\ incoming' = Append(incoming, sess)]_vars

\* A session-initiate came from the focus and another from a participant.
C21_Witness ==
    /\ Len(inbox) = 2 /\ Len(incoming) = 2
    /\ inbox[1].from = "focus" /\ ~incoming[1].isP2P
    /\ inbox[2].from # "focus" /\ incoming[2].isP2P

\* C22: an inbound transport-info with the sid of the session results in a
\* call of addIceCandidates on that session.
C22_TransportInfoRouted ==
    [][(Len(inbox') > Len(inbox) /\ LastIq'.action = "transport-info"
        /\ LastIq'.sid = sid) =>
          /\ api'.n = api.n + 1
          /\ api'.op = "addIceCandidates"]_vars

\* The last event a conference handled.
LastConf == confLog[Len(confLog)]

\* Instance i has one participant, and its presence announced neither a
\* poltergeist nor a gateway.
TrulyEligible(i) ==
    /\ Cardinality(DOMAIN conference[i].participants) = 1
    /\ \A id \in DOMAIN conference[i].participants : announced[i][id] = "user"

\* C23: a run of _maybeStartOrStopP2P starts a P2P session only if there is
\* exactly one remote participant other than the focus and it is neither a
\* poltergeist nor a gateway participant; if that does not hold and a P2P
\* session exists, the run tears the session down.
C23_P2PEligibility ==
    [][\A i \in Instances :
          (Len(confLog') > Len(confLog) /\ LastConf'.inst = i /\ LastConf'.ran) =>
              /\ LastConf'.did = "start" => TrulyEligible(i)'
              /\ (conference[i].p2pJingleSession # NoSession /\ ~TrulyEligible(i)') =>
                    conference'[i].p2pJingleSession = NoSession]_vars

\* The conference whose instance is not i.
Other(i) == IF i = "A" THEN "B" ELSE "A"

\* Instance i has joined and has the other instance as its only participant.
SeesOnly(i) ==
    /\ conference[i].joined
    /\ DOMAIN conference[i].participants = {conference[Other(i)].myroomjid}

\* String a comes before string b: a is a proper prefix of b, or a has the
\* smaller character where the two first differ.
ComparesLower(a, b) ==
    \E k \in 1..(Len(a) + 1) :
        /\ \A j \in 1..(k - 1) : j <= Len(b) /\ a[j] = b[j]
        /\ \/ k = Len(a) + 1 /\ Len(b) >= k
           \/ k <= Len(a) /\ k <= Len(b) /\ a[k] < b[k]

\* How often instance i has started a P2P session.
Starts(i) ==
    Cardinality({k \in DOMAIN confLog : confLog[k].inst = i /\ confLog[k].did = "start"})

\* C24: when each of two conferences has joined and has the other as its only
\* participant, the one whose id compares lower has started one P2P session
\* with the other and the other has started none; with equal ids neither has
\* started one.
C24_OneInitiator ==
    /\ \A i \in Instances :
          conference[i].p2pJingleSession # conference[i].myroomjid
    /\ (SeesOnly("A") /\ SeesOnly("B")) =>
          \A i \in Instances :
              LET mine == conference[i].myroomjid
                  theirs == conference[Other(i)].myroomjid
              IN  IF ComparesLower(mine, theirs)
                  THEN /\ Starts(i) = 1
                       /\ conference[i].p2pJingleSession = theirs
                  ELSE /\ Starts(i) = 0
                       /\ conference[i].p2pJingleSession = NoSession

\* The conference with id 9 waits and the one with id 10 has started a session.
C24_Witness ==
    /\ SeesOnly("A") /\ SeesOnly("B")
    /\ conference["A"].myroomjid = <<9>>
    /\ conference["B"].myroomjid = <<1, 0>>
    /\ conference["B"].p2pJingleSession = <<9>>
    /\ conference["A"].p2pJingleSession = NoSession

\* The decision of instance i last ran with the participants it has now.
DecidedForThese(i) ==
    \E k \in DOMAIN confLog :
        /\ confLog[k].inst = i /\ confLog[k].ran
        /\ confLog[k].peers = DOMAIN conference[i].participants
        /\ \A j \in (k + 1)..Len(confLog) : confLog[j].inst = i => ~confLog[j].ran

\* C25: a run of _maybeStartOrStopP2P after a run with the same participants
\* changes nothing: it starts no second P2P session and tears none down.
C25_DecisionIdempotent ==
    [][\A i \in Instances :
          (Len(confLog') > Len(confLog) /\ LastConf'.inst = i
           /\ LastConf'.ev = "reevaluate" /\ DecidedForThese(i)) =>
              /\ LastConf'.did = "none"
              /\ conference' = conference]_vars

\* The decision was run again while a P2P session existed.
C25_Witness ==
    /\ Len(confLog) >= 3
    /\ LastConf.ev = "reevaluate"
    /\ confLog[Len(confLog) - 1].did = "start"
    /\ conference["A"].p2pJingleSession # NoSession

RegisteredBefore(k, ssrc) ==
    LET sets == {j \in 1..(k - 1) : /\ ownerLog[j].op = "set"
                                    /\ ownerLog[j].ssrc = ssrc
                                    /\ ~ownerLog[j].threw}
    IN  IF sets = {} THEN NoOwner
        ELSE ownerLog[CHOOSE j \in sets : \A i \in sets : i <= j].owner

\* Every lookup so far returned, without throwing, the owner registered last
\* for its source, or no owner.
OwnerLookups ==
    \A k \in DOMAIN ownerLog :
        ownerLog[k].op = "get" =>
            /\ ~ownerLog[k].threw
            /\ ownerLog[k].owner = RegisteredBefore(k, ownerLog[k].ssrc)

\* C26: getSSRCOwner returns the owner that the last setSSRCOwner for that
\* source registered, and no owner, without throwing, for a source that was
\* never registered; no entry of the map is ever removed.
C26_OwnerMap ==
    [][/\ DOMAIN ssrcOwners \subseteq DOMAIN ssrcOwners'
       /\ OwnerLookups']_vars

\* A source was registered twice and looked up after the second time.
C26_Witness ==
    /\ Len(ownerLog) = 3
    /\ ownerLog[1].op = "set" /\ ownerLog[1].owner = "e1" /\ ~ownerLog[1].threw
    /\ ownerLog[2].op = "set" /\ ownerLog[2].owner = "e2"
    /\ ownerLog[2].ssrc = ownerLog[1].ssrc
    /\ ownerLog[3].op = "get" /\ ownerLog[3].ssrc = ownerLog[1].ssrc
    /\ ownerLog[3].owner = "e2"

\* Task t failed: a step of its chain rejected or its body threw.
Failed(t) ==
    \E i \in DOMAIN log :
        /\ log[i].t = t
        /\ log[i].ev \in {"err", "throw"} \/ log[i].op = "RENEGOTIATION_FAILED"

\* C27: a task whose chain rejected or whose body threw has signalled its
\* completion once, with the error, its callback has got the error once, the
\* queue is free of it, and a task that has started started only after every
\* task before it was finished, the failed ones included.
C27_FailureFreesQueue ==
    \A t \in TaskIds :
        /\ Failed(t) =>
              /\ Count(t, "finishedCallback", "err") = 1
              /\ Count(t, "finishedCallback", "ok") = 0
              /\ busy # t
              /\ chain[t] = "none"
              /\ task[t].kind \in {"accept", "answer", "replace"} =>
                    /\ Count(t, "failure", "cb") = 1
                    /\ Count(t, "success", "cb") = 0
        /\ (busy = 0 /\ queue # <<>>) =>
              \A t1 \in 1..(Head(queue) - 1) :
                  task[t1].kind # "none" =>
                      Count(t1, "finishedCallback", "err")
                        + Count(t1, "finishedCallback", "ok") = 1

\* The body of the first task threw and the task behind it has started.
C27_Witness ==
    /\ Has(1, "_processNewJingleOfferIq", "throw")
    /\ Has(1, "failure", "cb")
    /\ task[2].kind = "replace"
    /\ Has(2, "replaceTrack", "call")

\* No task that has sent its session-accept holds the queue.
AcceptedTasksDone ==
    \A i \in DOMAIN log :
        (log[i].op = "session-accept" /\ log[i].ev = "send") => busy # log[i].t

\* C28: when a session-accept gets no answer before the timeout, the error
\* handler is called with null, then the failure callback of acceptOffer gets
\* an error whose reason is timeout, then SESSION_ACCEPT_TIMEOUT is emitted
\* once; the queue does not wait for the answer.
C28_AcceptTimeout ==
    [][/\ AcceptedTasksDone'
       /\ (Len(log') > Len(log) /\ log'[Len(log) + 1].op = "session-accept"
           /\ log'[Len(log) + 1].ev = "timeout") =>
             /\ Len(log') = Len(log) + 4
             /\ log'[Len(log) + 2].op = "errorHandler"
             /\ log'[Len(log) + 2].arg = "null"
             /\ log'[Len(log) + 3].op = "acceptOffer.failure"
             /\ log'[Len(log) + 3].arg = "timeout"
             /\ log'[Len(log) + 4].op = "SESSION_ACCEPT_TIMEOUT"
             /\ log'[Len(log) + 4].ev = "emit"
             /\ UNCHANGED <<task, queue, busy, chain, state>>]_vars

\* A task behind the acceptOffer started while the session-accept was waiting
\* for its answer, and then the timeout came.
C28_Witness ==
    \E i, j, k \in DOMAIN log :
        /\ i < j /\ j < k
        /\ log[i].op = "session-accept" /\ log[i].ev = "send"
        /\ log[j].t = 2 /\ log[j].op = "replaceTrack" /\ log[j].ev = "call"
        /\ log[k].op = "SESSION_ACCEPT_TIMEOUT"
        /\ log[k - 1].arg = "timeout"

C31_IceTaskAwaitsCandidates ==
    \A t \in TaskIds :
        (task[t].kind = "ice" /\ icePending[t] > 0) =>
            /\ ~Has(t, "finishedCallback", "ok")
            /\ \A i \in DOMAIN log : log[i].t <= t

\* C32: after readSsrcInfo, in a P2P and in a bridged session alike, no key
\* of the SSRC owner map is NaN or negative.
C32_NoInvalidOwnerKey ==
    \A k \in DOMAIN ssrcOwners : ~IsNaN(k) /\ k.v >= 0

\* The SSRC of the track is a non-negative number with a registered owner,
\* and a presence of that owner and the media kind give media info.
Resolves(in) ==
    \E k \in DOMAIN ssrcOwners :
        /\ k = Number(TRUE, in.text)
        /\ k # NaN /\ k.v >= 0
        /\ ssrcOwners[k] \in lastPresences
        /\ in.kind \in {"audio", "video"}

\* C33: REMOTE_TRACK_ADDED is emitted for a remote track only if its SSRC is
\* a non-negative number with a registered owner and there is presence media
\* info for that owner and the media kind; in every other case no event is
\* emitted and remoteTracks stays as it is.
C33_OnlyResolvedTracks ==
    [][trackLog'.n > trackLog.n =>
          /\ trackLog'.outcome = "added" => Resolves(trackLog'.in)
          /\ ~Resolves(trackLog'.in) =>
                trackLog'.outcome # "added" /\ remoteTracks' = remoteTracks]_vars

\* The second track of an owner, with a good SSRC, took the place of the
\* first one and was announced.
C33_Witness ==
    /\ trackLog.n = 2 /\ trackLog.outcome = "added"
    /\ trackLog.in.track = 2 /\ trackLog.in.kind = "video"
    /\ Number(TRUE, trackLog.in.text) \in DOMAIN ssrcOwners
    /\ ssrcOwners[Number(TRUE, trackLog.in.text)] \in lastPresences
    /\ remoteTracks[<<ssrcOwners[Number(TRUE, trackLog.in.text)], "video">>] = 2

\* C34: the bridged session of the conference is never a P2P session: a
\* session made for a sender other than the focus is not stored in
\* jvbJingleSession.
C34_BridgedIsNotP2P ==
    jvbJingleSession # 0 => ~created[jvbJingleSession].isP2P

\* The callbacks of acceptOffer called from the answers to session-accept,
\* in the order of the session-accepts sent.
IqCallbacks ==
    SelectSeq(log, LAMBDA e : e.ev = "cb"
                              /\ e.op \in {"acceptOffer.success", "acceptOffer.failure"})

\* How often the success or the failure callback given to the acceptOffer of
\* task t has been called.
UserCallbacks(t) ==
    Count(t, "failure", "cb")
    + Cardinality({k \in DOMAIN IqCallbacks :
                      k <= Len(SessionAcceptsSent) /\ SessionAcceptsSent[k].t = t})

C36_StartedWhenActive ==
    \A i \in DOMAIN log :
        (log[i].op \in {"MEDIA_SESSION_STARTED", "acceptOffer.success"}) =>
            log[i].st = "active"

\* C37: the bridged session the conference refers to has been initialized,
\* and no replaceTrack of the conference reaches a session that has not.
C37_ReferencedIsInitialized ==
    /\ jvbJingleSession # 0 => jvbJingleSession \in initialized
    /\ \A i \in DOMAIN callLog : callLog[i].ready

\* How often the candidate of call i is listed in the transport-infos sent.
TimesSent(i) ==
    Cardinality({p \in (DOMAIN transportInfo) \X (1..MaxGathered) :
                    /\ p[2] <= Len(transportInfo[p[1]])
                    /\ transportInfo[p[1]][p[2]].id = i})

\* The candidate of call i waits for the batch timer.
Waiting(i) == \E k \in DOMAIN dripContainer : dripContainer[k].id = i

\* C38 as the specification states it: every candidate given before the end
\* of the candidates is in exactly one transport-info, or still waits for its
\* batch, and a candidate given after the end is never sent.
C38_EveryCandidateSent ==
    \A i \in DOMAIN given :
        given[i].kind = "cand" =>
            IF LatchedBefore(i)
            THEN TimesSent(i) = 0 /\ ~Waiting(i)
            ELSE TimesSent(i) + (IF Waiting(i) THEN 1 ELSE 0) = 1

\* C38, amended: every candidate given before the end of the candidates whose
\* ICE parameters and candidate line could be converted is in exactly one
\* transport-info, or still waits for its batch; a candidate that could not
\* be converted or was given after the end is never sent.
C38_ConvertedCandidateSent ==
    \A i \in DOMAIN given :
        given[i].kind = "cand" =>
            IF LatchedBefore(i) \/ ~given[i].parses
            THEN TimesSent(i) = 0 /\ ~Waiting(i)
            ELSE TimesSent(i) + (IF Waiting(i) THEN 1 ELSE 0) = 1

\* A candidate of the second media section was sent and one that could not be
\* converted was not.
C38_Witness ==
    /\ Len(given) = 2
    /\ given[1].kind = "cand" /\ ~given[1].parses /\ TimesSent(1) = 0
    /\ given[2].kind = "cand" /\ given[2].parses /\ given[2].mid = 1
    /\ TimesSent(2) = 1

\* C39: addTrack leaves localTracks as it is whenever it rejects; on a closed
\* peer connection, where the native addTrack and addTransceiver throw, every
\* addTrack rejects, so no step taken there changes localTracks.
C39_RejectedTrackNotStored ==
    [][signalingState = "closed" => localTracks' = localTracks]_vars

\* The entries of the history of instance i for event ev.
ConfEvents(i, ev) == {k \in DOMAIN confLog : confLog[k].inst = i /\ confLog[k].ev = ev}

\* Neither the focus nor the local user is a participant; no jid has been
\* announced as a new member, which is what emits USER_JOINED, more than
\* once; muc_joined has been emitted once if the room is joined and never
\* otherwise, and then the room was not joined before.
PresencesKept(i) ==
    /\ Focus \notin DOMAIN conference[i].participants
    /\ conference[i].myroomjid \notin DOMAIN conference[i].participants
    /\ \A k, l \in ConfEvents(i, "muc_member_joined") :
          confLog[k].id = confLog[l].id => k = l
    /\ DOMAIN conference[i].participants
          \subseteq {confLog[k].id : k \in ConfEvents(i, "muc_member_joined")}
    /\ Cardinality(ConfEvents(i, "muc_joined")) = (IF conference[i].joined THEN 1 ELSE 0)
    /\ \A k \in ConfEvents(i, "muc_joined") : ~confLog[k].joined

\* C40: after any presences the participants contain neither the focus nor
\* the local user, USER_JOINED has been emitted at most once for a jid, and
\* the room's joined flag has gone from false to true once, with one
\* muc_joined event, and never goes back.
C40_PresencesKept ==
    [][\A i \in Instances :
          /\ PresencesKept(i)'
          /\ conference[i].joined => conference'[i].joined]_vars

\* The room was joined, one member became a participant, and a member with
\* the resource of the focus that was not marked as the focus was announced
\* and skipped.
C40_Witness ==
    /\ conference["A"].joined
    /\ Len(confLog) = 3
    /\ Cardinality(DOMAIN conference["A"].participants) = 1
    /\ Focus \in conference["A"].members
    /\ \E k \in DOMAIN confLog : confLog[k].ev = "muc_member_joined" /\ confLog[k].id = Focus
====
